# TLA+ models of the RedirFS path registry and rename propagation

These modules model `src/redirfs/rfs_path.c`. Lines 1–1039 of that file are
the RedirFS path layer. Lines 1040 and on are a different component joined
onto the same file: the FreeBSD `lrfs_*` vnode layer (LaReFS), a stacking
file system derived from nullfs. The spec leaves it outside the core. Its
vnode lock and reclaim protocol is modelled in `LrfsVnode`. Its vnode
operations and the use counts of both layers are modelled in `LrfsVop`.

## The system

RedirFS lets filter modules register interest in subtrees of the namespace.
A filter registers a path (a mount and a dentry) as *include* or *exclude*.
Every dentry then carries, in a cache, the ordered chain of filters that see
operations on it. A dentry runs a filter when the nearest registered path
that names the filter, at or above the dentry, includes it.

The path layer has these parts, all in `rfs_path.c` unless stated:

| Part | Code | State | Operations |
|---|---|---|---|
| Path registry | `rfs_path_*` helpers (lines 26–324) | `rfs_path_list`; per `rfs_path`: id, refcount, `rinch`/`rexch` chains, `rroot`; per filter: `paths_nr` | alloc, get, put, find, find_id, get_id, add, rem, add/rem include/exclude |
| Exported API | `redirfs_*` (336–641) | as above, plus the callers' references | add_path, rem_path, rem_paths, get_paths, put_paths, get_path, put_path, get_path_id, get_id_path, get_path_info, get_paths_root |
| Rename propagator | `rfs_fsrename*` (758–1025) | the per-dentry cache (`rfs_dentry->rinfo`: root and chain) | remove, set and add phases |
| Display names | `redirfs_get_filename`, `rfs_path_get_info` (643–756) | caller buffers | formatting |
| Filter chains | `rfs_chain.c` (not in `src/`) | immutable, copy-on-write chains | find, add, rem, diff |
| Roots and the per-entry cache | `rfs_root.c`, `rfs_info.c`, `rfs_dcache.c` (not in `src/`) | per-root merged chains, per-dentry rinfo | `rfs_root_add/rem_flt`, `rfs_root_walk`, `rfs_info_add/rem/set/reset` |

How the parts interact:

- Every mutating API call takes the superblock rename mutex and then
  `rfs_path_mutex`, and holds them for its whole body.
- `rfs_fsrename` is called by the VFS rename hook. The VFS already holds the
  rename mutex, and `rfs_fsrename` takes `rfs_path_mutex`. The lock order is
  the same everywhere.
- `redirfs_rem_paths` is the exception to whole-body locking. It takes a
  snapshot with `redirfs_get_paths`, which locks and unlocks. It then calls
  `redirfs_rem_path` once per path, and each call locks again. Other threads
  run in between.
- `redirfs_get_path` and `redirfs_put_path` change only the atomic refcount,
  without the mutex.

What is hard:

- interleavings of reference counting with removal;
- ids reused after removals;
- failures halfway through an operation (chain allocation, root update);
- keeping the per-dentry cache equal to what the registrations resolve to
  when a rename moves a subtree across registered paths, some of them nested
  and some of them moved themselves.

## Modules

| Module | Models | Kind |
|---|---|---|
| `RfsPath` | The registry and the exported calls that change it | Detailed spec |
| `PathRegistry` | What the registry promises its callers (spec 4.2) | Abstract spec |
| `MC_RfsPath` | Model values and symmetry for `RfsPath` | TLC instance |
| `RfsRename` | `rfs_fsrename` and the cache collaborators it calls | Detailed spec |
| `MC_RfsRename` | A four-dentry tree and two filters for `RfsRename` | TLC instance |
| `RfsFilename` | `redirfs_get_filename` and `rfs_path_get_info`, byte by byte | Operators and a driver |
| `MC_RfsFilename` | Two filesystems, three mounts, and path listings | TLC instance |
| `LrfsVnode` | The lrfs vnode lock, `lrfs_reclaim` and `lrfs_getwritemount` | Detailed spec with fairness |
| `VnodeLock` | What `VOP_LOCK1`/`VOP_UNLOCK` promise: one shared/exclusive lock | Abstract spec |
| `RfsLocks` | The locks every entry point takes, in order, on every path | Detailed spec with fairness |
| `LrfsVop` | lrfs vnode operations (`lrfs_bypass`, lookup, open, setattr, rename, inactive) and use counts | Detailed spec |
| `MC_LrfsVop` | Two lrfs vnodes over two lower ones, and a vnode of another mount | TLC instance |

### RfsPath

- **Variables.**
  - `plist` is `rfs_path_list`, in list order. `obj[o]` is the `struct
    rfs_path` in memory slot `o`; a freed slot is `FreeObj`.
  - `paths_nr` is `rflt->paths_nr`.
  - `held[t]` is the bag of path references that thread `t` owns.
  - `pc`, `snap`, `idx` and `rv` are the locals of a thread inside
    `redirfs_rem_paths`. A thread holding the array returned by
    `redirfs_get_paths_root` has `pc = "root_paths"` and the array in `snap`.
  - `ret` is the status returned by the call that the last step completed.
- **Actions.**
  - One action per exported call: `redirfs_add_path`, `redirfs_rem_path`,
    `redirfs_get_path`, `redirfs_put_path` and `redirfs_get_path_id`.
    Each action includes every helper the call makes, including the trailing
    `rfs_path_rem` and the error-path `rfs_path_put`.
  - `redirfs_rem_paths` is three steps, because the mutex is released
    between them: `rem_paths_get` (the snapshot), `rem_paths_step` (one
    `redirfs_rem_path`) and `rem_paths_put`. The get and the put are `redirfs_get_paths` and
    `redirfs_put_paths`.
  - `redirfs_get_paths_root(t, r)` is one step under the root's spinlock.
    `root_paths_put` is the caller handing the array back to
    `redirfs_put_paths`.
  - The helpers keep the code's names (`rfs_path_add_include`,
    `rfs_path_rem`, `rfs_path_get_id`, …). PROJECT.json `map` gives the lines
    each one translates.
- **Chains.** Chains are duplicate-free sequences, taken from the spec, with
  `rfs_chain_*` kept as names.
- **Failures.** When `AllocFails` is TRUE, every allocation or
  root-aggregate update that can fail does so nondeterministically (`fail`).
  A root update is opaque except for its failure.
- **Roots.** The constant `RootOf` maps each (mount, dentry) pair to the
  `rfs_root` of its dentry. Bind mounts of one dentry share a root
  (`RootShared` in `MC_RfsPath`). `RootPaths(r)` is the root's path list: the
  paths attached by `rfs_path_add_rroot` and not yet detached. `RootCites` is
  the root's merged chains, taken from the spec: every filter one of its
  paths cites.
- **Refinement.** `RegView` maps the registry onto `PathRegistry`'s `reg`:
  for each dentry, the chains of its listed path.

### RfsRename

- **Variables.**
  - `parent` is `d_parent`. `inc[d]` and `exc[d]` are the include and
    exclude filters registered at `d`.
  - `info[d]` is `d`'s cached rinfo: its root and its chain. Chains are sets
    iterated in the priority order `Prio`.
  - `rv` is the return value of the last rename.
- **The action.** `rfs_fsrename(e, np)` is one action: the VFS moves
  directory `e` under `np`, then `rfs_fsrename` runs all three phases under
  `rfs_path_mutex`. Every helper is an operator with the code's name:
  - `RenameSrc` and `RenameDst` pick `rroot_src` and `rroot_dst`.
  - `rfs_fsrename_rem` uses `rfs_fsrename_rem_rroot` or
    `rfs_fsrename_rem_dentry`, and the add phase is built the same way.
  - `rfs_fsrename_set` is the set phase.
- **Threading and failures.** The loops are folds over the chain. A record
  `R` carries the cache, the return value and the accumulated chain. `Call`
  is one fallible call (`rfs_chain_diff`, `rfs_chain_add`/`rem`,
  `rfs_info_alloc`, or a collaborator). The rename picks a budget `k`: the
  call after `k` successful ones fails with ENOMEM, or none fails.
- **Collaborators (not in `src/`, modelled from the spec's interface).**
  - A walk from `e` gives the new rinfo to every dentry below `e` until it
    reaches a *sub-root*, a dentry whose cached rinfo belongs to its own root.
  - A sub-root takes or drops the filter (`rfs_root_add_flt` /
    `rfs_root_rem_flt`) unless a path at or above it, below `e`, names the
    filter. It then installs its new rinfo on its own dentries
    (`rfs_root_rem_flt`/`rfs_root_add_flt` on the root itself), and the walk
    cascades to the sub-roots below it (`rfs_root_walk`). These are two
    fallible calls per filter, as at lines 768/772 and 856/860, so a
    failure can fall between them.
  - Each collaborator call is atomic: it succeeds or fails as a whole.
- **Initial state.** Every registration of the filters on `RegDentries` is
  possible. The cache starts equal to what the registrations resolve to
  (`Resolved`, `OwnerRoot`), which is what registering leaves behind.

### RfsFilename

- **Operators.**
  - `FilenameLoop` is the `again:` loop of `redirfs_get_filename` with its
    `follow_up`.
  - `FilenameRootSlash` is the `if (*end != '/')` fix-up.
  - `redirfs_get_filename` returns the status, the bytes left at the start
    of the caller's buffer, and the `memmove` count.
  - `GetInfoLoop` is the record loop of `rfs_path_get_info`, with `snprintf`
    as what it stores.
- **Bytes.** A buffer is a sequence of bytes. A dentry's name is
  `d_name.len` copies of the dentry, and `SLASH`, `NUL` and the record's
  type, colons and one-digit id are one byte each. So every length, offset
  and truncation of the code is kept, and no name is built from characters.
- **Driver.** `CallGetFilename` and `CallGetInfo` call the functions on any
  input: a pair from `Pairs` or a listing from `Listings`, and any size in
  `0 .. MaxSize`. `call` and `res` record the last call and its result.
- **Reference.** `Canonical(m, d)` writes the name top-down: the mount
  chain from the root mount, then the dentries from each mount root.
  `Listing(l)` is the full listing built from it.

### RfsLocks

- **Locks.** `"rename"` is the superblock's `s_vfs_rename_mutex`, `"path"`
  is `rfs_path_mutex`, `"dcache"` is `dcache_lock`, and `"rroot"` is an
  `rfs_root`'s spinlock. One superblock and one root suffice: no code holds
  two rename mutexes or two root locks at once.
- **Programs.** Each entry point is the set of its paths through the code,
  each path the sequence of its `Lock`, `Unlock`, `Alloc(gfp)` and `Put`
  (dput, mntput or a last put) steps. Early returns and error paths are
  paths of their own: the ENOMEM returns of `redirfs_get_paths`,
  `redirfs_get_paths_root` and `redirfs_get_path_info`, and the error return
  from inside the loop of `rfs_path_get_info`. `rfs_fsrename` is the
  cross-directory rename: the VFS's `lock_rename` takes the rename mutex,
  then the hook takes `rfs_path_mutex`. A rename within one directory
  returns before any lock and is left out.
- **Threads.** `Call` picks an entry point and one of its paths. `Acquire`
  blocks until the lock is free. `Release`, `Work` (an allocation or a put)
  and `Return` never block.
- **Fairness.** `FairSpec` makes `Acquire` strongly fair and the other
  steps of a running thread weakly fair. A kernel mutex queues its waiters
  and wakes the first, and spinlocks are ticket locks, so a thread waiting
  for a lock that is free infinitely often gets it. `Call` has no fairness:
  a thread need never enter redirfs.
- **What is left out.** What the steps do to the registry (that is
  `RfsPath`, `RfsRename` and `RfsFilename`), the i_mutex locks `lock_rename`
  also takes, `follow_up`'s own `vfsmount_lock`, and any lock taken inside
  the external walks.

### LrfsVnode

An lrfs vnode `vp` stacks on a lower vnode `lvp`. While `vp` is live, its
`v_vnlock` is `lvp`'s lock, so locking `vp` locks `lvp`. `lrfs_reclaim`
ends that sharing.

- **State.**
  - `vdata` is `v_data != NULL`.
  - `vnlock` says which lock `v_vnlock` names: `"lower"` or `"own"`.
  - `lk` is the lockmgr state of the two locks: an exclusive owner and a set
    of sharers.
  - `ilk` holds the owners of the two interlocks.
  - `hold` and `use` are `lvp`'s hold and use counts. `use` starts at 1: the
    reference the lrfs node keeps.
- **Actions.** One action per step of the code between two points where
  another thread can interfere.
  - `lrfs_lock`: take the interlock, check `v_data`, hold `lvp`, sleep in
    `lvp`'s lock, re-check `v_data` after waking, maybe relock on the own
    lock, `vdrop`.
  - `lrfs_unlock`: the `mtxlkflag == 2` path.
  - `lrfs_reclaim`: own lock, then clear under the interlock, then `vput`.
  - `lrfs_getwritemount`.
- **Threads.** Two lockers lock in either mode, unlock, and ask for the
  write mount. One reclaimer runs what `vgone` does: `VOP_LOCK` exclusive,
  `lrfs_reclaim`, `VOP_UNLOCK`.
- **lockmgr.**
  - A blocking shared/exclusive lock.
  - A shared request waits while an exclusive one is queued. This is
    `LK_CAN_SHARE` in FreeBSD's `kern_lock.c`; without it, two overlapping
    readers starve the reclaimer, which the model does not claim of the code.
- **Refinement.** `VnodeLock` is one shared/exclusive lock, taken and
  dropped in single steps. The mapping counts a thread as a holder from the
  return of `lrfs_lock` until the release step of `lrfs_unlock`.
- **Fairness.** Strong fairness on each thread's steps inside a call:
  lockmgr and the interlock mutex queue their waiters. Weak fairness on a
  holder calling `lrfs_unlock`: a caller that locked a vnode unlocks it.

### LrfsVop

- **State.** `ref` is every vnode's `v_usecount`, for both layers and for a
  vnode of another mount. `held` is the references the caller (the VFS)
  holds. `rdonly` is the mount's `MNT_RDONLY`, `vtype` the lrfs vnodes'
  `v_type`. `nd` is what the last lookup of each nameiop granted: namei
  creates, removes or renames only after such a lookup. `written` records
  that a modifying operation reached the lower layer. `last` is the lower
  vnode and the vnode the last operation returned.
- **Operations.** Each is an operator on the counts that returns the
  counts, the error, the vnode returned and whether the lower layer was
  called:
  - `lrfs_bypass` is `MapIn` (map every argument that is an lrfs vnode to
    its lower vnode, with a `VREF` for each `WILLRELE` one), `LowerRele`
    (the lower operation, `VCALL`, drops its `WILLRELE` arguments),
    `MapOut` (restore, and `vrele` the lrfs ones), then `lrfs_nodeget` of
    a returned vnode. The flag bits are read with `Bitwise`.
  - `do_lrfs_lookup`: the read-only refusals, the lower lookup, the "."
    case (`LookupDot`) and the failure of `lrfs_nodeget`.
  - `lrfs_setattr`: its read-only and file-type checks in the code's order.
  - `lrfs_rename`: the cross-device branch, which releases all four
    arguments itself.
  - `lrfs_open` and `lrfs_proceed_oper`, which for the counts are
    `lrfs_bypass`.
  - `lrfs_vptocnp`: the lower parent is found, referenced and mapped by
    `lrfs_nodeget`, and `vput` again. It is `vput` directly if the mapping
    fails. Holds (`vhold`/`vdrop`) and the lock juggling are left out,
    because holds do not keep a vnode from being inactivated.
  - `vrele` of the last reference to an lrfs vnode runs `lrfs_inactive`.
    Its `vrecycle` reclaims the vnode, and the reclaim drops the lower
    vnode.
- **Actions.** The VFS's calls through `lrfs_vnodeops`:
  - `Lookup`, `Open`, `Setattr`, and `Rename` (whose target may be on
    another mount);
  - `Remove` and `Create`, which reach `lrfs_bypass` through `vop_bypass`;
  - `Vptocnp`, on a non-directory vnode the caller holds;
  - `GetVnode` and `PutVnode`.
- **Outcomes.** Every lower error, every lower lookup result, and the
  failure of `lrfs_nodeget` are inputs of the action.
- **`lrfs_nodeget`** (not in this file) is modelled as its callers here use
  it. On success it hands back the lrfs vnode with a new reference, taking
  over or dropping the caller's lower reference. On failure the caller keeps
  that reference: `do_lrfs_lookup` and `lrfs_vptocnp` then `vput` it.

## Runs

| Run | Config | Expect | Checks |
|---|---|---|---|
| registry_failures | `MC_RfsPath_fail.cfg` | pass | `TypeOK`, `RegistryWellFormed`, `RefCountSound`, `PathsNrCount`, `RemPathsClearsFilter`, `AtomicFailure`, `RefinesPathRegistry` |
| registry_ids | `MC_RfsPath_ids.cfg` | violation | `IdsUnique` |
| rem_paths_race | `MC_RfsPath_race.cfg` | violation | `RefCountSound` |
| root_paths | `MC_RfsPath_root.cfg` | violation | `RootPathsCiteFilter` |
| display_names | `MC_RfsFilename.cfg` | pass | `FilenameMatchesPath`, `GetInfoWithinBuffer` |
| filename_moved | `MC_RfsFilename_moved.cfg` | violation | `NameTooLongOnlyWhenShort` |
| vnode_lock | `MC_LrfsVnode.cfg` | pass | `LowerHeldWhileUsed`, `RefinesVnodeLock`, `CallsReturn` |
| lock_order | `MC_RfsLocks.cfg` | pass | `NoSleepInAtomic`, `CallsReturn` |
| rename_consistency | `MC_RfsRename_ok.cfg` | pass | `CacheConsistent` |
| rename_partial_failure | `MC_RfsRename_fail.cfg` | violation | `RenameMovesTowardsResolved` |
| lrfs_vops | `MC_LrfsVop.cfg` | pass | `RefsAccounted`, `MapsReturnedVnode`, `ReadOnlyLowerUnchanged` |
| bypass_leak | `MC_LrfsVop_leak.cfg` | violation | `RefsAccounted` |

- **registry_failures.**
  - *Setup:*
    - two threads, each for its own filter;
    - two bind-mounted dentries of one root and two object slots;
    - at most two references kept at once, by either thread;
    - every allocation and every root update may fail;
    - symmetry over slots, over dentries, and over exchanging the two
      threads together with their filters.
  - *Shows:* in every interleaving of every exported call, and on every
    error path:
    - the list holds exactly the live, used paths, each once, one per dentry;
    - every count equals its owners: the list, the threads' handles and the
      arrays of `redirfs_get_paths` and `redirfs_get_paths_root` a thread
      still holds;
    - `paths_nr` always equals the number of listed paths citing the filter;
      this is what sizes `redirfs_get_paths`' array;
    - a `redirfs_rem_paths` returning 0 leaves no path citing the filter;
    - an erroring call changes no chain;
    - `RfsPath` refines `PathRegistry`.
  - *Bound:*
    - two references let a thread take a second reference to a path it
      holds (`redirfs_get_path`) and hold a path across the other thread's
      calls, which every count property needs;
    - two slots are enough for both dentries to be registered at once;
    - three slots with failures on do not finish within five minutes.
  - *Result:* 78,370 distinct states, about 2.5 min.
- **registry_ids** (finding). One thread adds d1 and d2, removes d1, then
  adds d1 and d3. `rfs_path_get_id` scans the list once, because its
  `continue` only continues the inner loop, so two listed paths get id 1.
- **rem_paths_race** (finding). Two threads act for the same filter.
  - Thread 1 takes its snapshot.
  - Thread 2 removes the path.
  - Thread 1's `redirfs_rem_path` returns EINVAL, but its trailing
    `rfs_path_rem` removes and puts the already unlisted path a second time.
    The count drops below its owners, which means a use-after-free, or the
    `BUG_ON` in `rfs_path_put`.
- **root_paths** (finding). d1 and d2 are bind mounts of one dentry, so
  they share a root. Thread 1 registers f1 on d1 and thread 2 registers f2
  on d2. `redirfs_get_paths_root` for f1 then returns both paths, because
  line 482 tests the root's merged chain, which cites f1, for every path of
  the root.
- **display_names.**
  - *Setup:* every pair the three mounts show, every listing of up to three
    paths (one citing neither chain) in every order, and every buffer size
    from 0 to 20.
  - *Shows:*
    - `redirfs_get_filename` succeeds exactly when the name and its NUL
      fit. It then leaves the name the reference spells, across every
      mount crossing and for a mount root, and `memmove` moves exactly the
      bytes written.
    - `rfs_path_get_info` never stores past the buffer and returns what it
      stored. When the listing fits, it is exactly the citing paths' records
      in list order, each ended by a NUL.
  - *Result:* 841 distinct states, about 15 s.
- **filename_moved** (finding). w was registered through the bind mount
  m3, whose root is x, and was then renamed out of x through m1. The walk
  never meets `mnt_root`. It passes the filesystem root, whose parent is
  itself, and repeats it until the size runs out. So the call returns
  ENAMETOOLONG at every size, and `rfs_path_get_info` fails the filter's
  whole listing.
- **vnode_lock.**
  - *Setup:* two lockers and a reclaimer on one lrfs vnode.
  - *Shows:*
    - A thread that slept in `lvp`'s lock while the vnode was reclaimed drops
      that lock and takes the vnode's own. So the stacked lock still behaves as
      one lock (`RefinesVnodeLock`).
    - The `vholdl` of every function keeps `lvp` from being recycled after the
      reclaim's `vput` (`LowerHeldWhileUsed`).
    - Every call returns (`CallsReturn`).
  - *Mutants:*
    - Skipping the re-check breaks the refinement: two holders, one of them
      exclusive.
    - Leaving out `vholdl` leaves `lvp` with neither a hold nor a use while
      a thread sleeps in its lock.
    - Keeping `lvp`'s lock after the re-check blocks a second locker forever.
  - *Result:* 7,430 distinct states, about 8 s.
- **lock_order.**
  - *Setup:* two threads, each calling any entry point on any of its
    paths, over and over.
  - *Shows:* no thread's next step sleeps while it holds a spinlock.
    `redirfs_get_paths_root` allocates with `GFP_ATOMIC` under the root's
    lock, and `redirfs_get_filename` drops `dcache_lock` before `dput`.
    Also, under `FairSpec`, every call returns. The order
    rename mutex, then `rfs_path_mutex`, then `dcache_lock` is the same in
    every entry point and in the rename hook, and every error path unlocks
    what it took. Deadlock checking is on.
  - *Mutants:* `GFP_KERNEL` in `redirfs_get_paths_root` breaks the first.
    `redirfs_add_path` taking `rfs_path_mutex` first deadlocks against a
    rename and breaks the second.
  - *Result:* 5,737 distinct states, about 3 s.
- **rename_consistency.**
  - *Setup:* every registration of two filters on three dentries (729
    initial states), and every sequence of renames.
  - *Shows:* every dentry's cached chain equals what its registrations
    resolve to in the new tree. The cases covered include:
    - moving a registered path;
    - moving a subtree that contains sub-roots;
    - moving into a region with no filters, or into a root with an empty
      chain;
    - moving back again.
  - *Result:* 14,349 distinct states, about 25 s.
- **rename_partial_failure** (finding). Moving `b` under `c` fails after
  its first filter. `b` is left with `{f1}` of `c`'s `{f1, f2}`. Moving `b`
  back out then fails after the remove phase's first step, but that step has
  already given `b` the chain `{f2}`. The reason is that
  `rfs_fsrename_rem_dentry` rebuilds the chain from the root's chain
  (line 792), not from the dentry's own chain as the add phase does
  (line 883). The remove phase has attached a filter.
- **lrfs_vops.**
  - *Setup:* the root and one other lrfs vnode (a regular file or a
    device), their lower vnodes, and a vnode of another mount. The mount
    is read-only or not. The caller holds at most four references at
    once. The lower layer may fail any operation, and `lrfs_nodeget` may
    fail in lookup and in `lrfs_vptocnp`.
  - *Shows:*
    - Every use count of both layers equals its holders: the caller's
      references, the mount's reference on its root, and an lrfs vnode's
      reference on its lower vnode while it is in use (`RefsAccounted`).
      This holds after every `WILLRELE` mapping, cross-device rename,
      inactivation and failed lookup.
    - A returned vnode is the lrfs vnode of the lower one
      (`MapsReturnedVnode`).
    - On a read-only mount no create, remove, rename or attribute write
      reaches the lower layer (`ReadOnlyLowerUnchanged`).
  - *Mutants:*
    - Inactivation that does not recycle leaves the lower vnode referenced.
    - Handing up the lower directory for "." breaks the mapping.
    - A lookup that does not turn EJUSTRETURN into EROFS lets a create
      through.
  - *Result:* 73,850 distinct states, about 1.5 min.
- **bypass_leak** (finding). The caller looks up a name to create in the
  root, and the lower create makes l1 and returns it referenced. Then
  `lrfs_nodeget` fails. `lrfs_bypass` (line 1264) returns the error, and
  nobody holds l1's reference. The file's other callers of `lrfs_nodeget`
  release the lower vnode when it fails: `do_lrfs_lookup` at line 1336 and
  `lrfs_vptocnp` at line 1784.

Every property of a passing run has a mutant in PROJECT.json: a plausible bug
in a mapped definition that TLC catches under the run's own configuration.

## Bounds

- **Registry, two object slots and two kept references.** Two slots are
  enough for a removed path's slot to be reused while the other path is
  still listed. Two kept references let one thread hold a path while the
  other removes it. Two dentries and two threads cover every pairwise
  interleaving. The ids and race runs use the
  smallest configuration that exhibits each trace.
- **Rename, a four-dentry tree.** A root, two children and a grandchild give
  every shape of three-level nesting: a registered path above another, a
  sub-root below a moved dentry, and a move into a sibling. Two filters make
  a chain difference nonempty on both sides.
- **Display names, three mounts.** A root mount, a mount on a directory of
  it, and a bind mount of a subdirectory on a directory of the second give
  names that cross zero, one and two mounts, a mount root named through its
  parent, and a two-byte name. The longest listing is 19 bytes, so sizes
  0 to 20 cover every truncation point, the exact fit and room to spare.
  `PageSize` is 8, the longest name with its NUL.
- **Rename failures.** The budget reaches every fallible call of a rename
  over two filters. That is at most 10: a root moving between roots makes
  a diff and two calls per filter in each of its two phases,
  2 · (1 + 2 · 2).

- **Vnode lock, two lockers and a reclaimer.** Two lockers give shared
  holders together, an exclusive holder against a shared one, and a second
  sleeper on `lvp`'s lock when the first wakes to a reclaimed vnode. A
  second reclaim of the same vnode cannot happen.
- **lrfs operations, two lrfs vnodes and four references.** The root
  and one more vnode give a lookup of "." and of another name, a create of
  a new vnode, and a remove or rename of a looked-up one. The vnode of
  another mount gives the cross-device rename. A rename with a
  target holds four argument references, so four is the least bound at
  which `lrfs_rename`'s release of `tvp` is reached. That includes a
  cross-device target whose `tdvp` and `tvp` are one vnode, released twice
  (line 1483). The second vnode is a regular file or a device, which covers
  both size branches of `lrfs_setattr`.
- **Locks, two threads.** A deadlock between two lock orders needs two
  threads, and so does a thread blocked behind a lock that was never
  released. Every entry point with every path is offered to both.

Liveness is checked only in `RfsLocks` and `LrfsVnode`. There, what can stop a call is a
lock, and the fairness of the kernel's locks is what the property rests on.
In the other modules every operation is a bounded sequential computation
under a mutex, and the only loop that spans several steps,
`redirfs_rem_paths`, walks a fixed snapshot. There, the one candidate
liveness property is that a thread in `redirfs_rem_paths` returns, under
weak fairness of its own steps. It holds, but no plausible change to
the code breaks it. A retried failing removal changes no variable, so it is
a stuttering step, and weak fairness forces the thread to take a real step.
The property would say nothing about the code, so it is not checked.

## Not modelled

- **lrfs queries and control.** `lrfs_getattr`, `lrfs_access`,
  `lrfs_accessx`, `lrfs_print` and `lrfs_vptofh` answer from the lower vnode
  and change no state. `lrfs_ioctl` attaches and detaches the
  external larefs filters, whose code is not in this repository. The
  callbacks of the filter chains around every operation are also left
  out. While reading the code we noticed that `lrfs_inactive` passes
  `LAREFS_LOOKUP`, not an inactive operation id, to the filters' callbacks
  (lines 1628 and 1633).
- **Two observations not checked by a run.**
  - `redirfs_rem_paths` on a filter without paths returns its
    uninitialised `rv` (line 621). The model keeps that outcome as a
    nondeterministic return.
  - `rfs_path_get_info` returns the buffer size rather than the length a
    truncated listing needs (line 680), which spec 6 promises.
- **lrfs lock corners.** `lrfs_unlock` called with `LK_INTERLOCK`, or with
  the interlock already held (`mtxlkflag` 1 or 0), and lockmgr's
  `LK_NOWAIT` and `LK_UPGRADE` failures.
- **`redirfs_get_path_info`, `redirfs_get_id_path`.** They change no
  registry state; they fill or free a record of the caller's. The locks and
  allocation of `redirfs_get_path_info` and `redirfs_put_path_info` are in
  `RfsLocks`.
- **The VFS's own locks.** The `i_mutex` locks that `lock_rename` takes,
  `follow_up`'s `vfsmount_lock`, and the locks of the external walks are
  not in `RfsLocks`. Their code is not in this repository.
- **The root aggregate's internals** (`rfs_root.c`). It is modelled only as
  a path list and merged chains, without its own lock or allocation.
- **The namespace under `RfsFilename`.** It is a constant. A rename that
  moves a registered dentry out of its mount's root is represented by the
  pair it leaves behind (`PairsMoved`).
- **An emptied chain in the set phase** (line 963). `rfs_fsrename_set`
  reads `rdentry->rinfo->rchain->rflts_nr` without a NULL check. The
  remove phase may just have taken the moved dentry's last filter. This is
  safe only if `rfs_info_rem` then drops the `rfs_dentry`, so that
  `rfs_dentry_find` returns NULL at line 956. That code is in `rfs_info.c`
  and `rfs_dcache.c`, which are not in this repository. `RfsRename` takes
  an empty chain as a loop over nothing, which is the outcome in which the
  code is safe. The case is reached in `rename_consistency`.
- **Seeding the per-inode cache** (`rfs_path_add_dirs`). Whether `new_dir`
  has an `rfs_inode` depends on the external dcache hooks. In the rename
  model every dentry starts cached, so the unchecked `rinode->rinfo` at
  line 997 is out of reach.
- **Inside a collaborator.** A collaborator walk is atomic, so a walk that
  fails partway over the subtree is not modelled, only failure between
  collaborator calls.

## Plan

1. **Done.** `RfsPath`, `PathRegistry`, and the registry runs and findings.
2. **Done.** `RfsRename`: rename propagation with failure injection.
3. **Done.** Per-root path lists and `redirfs_get_paths_root` in `RfsPath`.
4. **Done.** `RfsFilename`: display names and the sysfs listing.
5. **Done.** `RfsLocks`: lock order, sleeping under spinlocks, and
   termination under fairness.
6. **Done.** `LrfsVop`: lrfs vnode operations and the use counts of both
   layers, with the `lrfs_bypass` leak as a finding.
7. **Compose registration with renames.** Let `redirfs_add_path` and
   `redirfs_rem_path` change `inc` and `exc` through the root aggregate, in
   one module with `RfsRename`. Then check that registration followed by
   renames keeps the cache consistent.
8. **Refinement for rename.** An abstract spec in which a rename atomically
   sets the cache to the resolved chains, with `RfsRename` (no failures)
   shown to refine it.
