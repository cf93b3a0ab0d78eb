------------------------------ MODULE RfsLocks ------------------------------
(***************************************************************************)
(* The locks taken by the entry points of src/redirfs/rfs_path.c, and the  *)
(* order they are taken in.                                                *)
(*                                                                         *)
(*   "rename"  the superblock's s_vfs_rename_mutex (a mutex); the VFS      *)
(*             holds it across a cross-directory rename, which calls the   *)
(*             rfs_fsrename hook;                                          *)
(*   "path"    rfs_path_mutex (a mutex), guarding rfs_path_list;           *)
(*   "dcache"  dcache_lock (a spinlock), taken by redirfs_get_filename;    *)
(*   "rroot"   an rfs_root's lock (a spinlock), taken by                   *)
(*             redirfs_get_paths_root.                                     *)
(*                                                                         *)
(* Every entry point is a set of programs, one per path through its code   *)
(* (early returns and error paths included): the sequence of its lock,     *)
(* unlock, allocation and reference-put steps.  A thread calls an entry    *)
(* point, runs one of its programs step by step, interleaved with the      *)
(* other threads, and returns.  What the steps do to the registry is       *)
(* modelled in RfsPath, RfsRename and RfsFilename; here only blocking,     *)
(* sleeping and the order of the locks matter.                             *)
(***************************************************************************)
EXTENDS Naturals, Sequences, FiniteSets

CONSTANTS
  Threads,    \* kernel threads calling into redirfs
  NoOwner     \* owner of a free lock

Mutexes == {"rename", "path"}
Spins   == {"dcache", "rroot"}
Locks   == Mutexes \cup Spins

VARIABLES
  op,      \* the entry point a thread is in, or "idle"
  prog,    \* the steps of that call still to run
  owner    \* the thread holding each lock, or NoOwner

vars == <<op, prog, owner>>

-----------------------------------------------------------------------------
(* Steps.                                                                  *)

Lock(l)   == [do |-> "lock", l |-> l]
Unlock(l) == [do |-> "unlock", l |-> l]
Alloc(g)  == [do |-> "alloc", gfp |-> g]   \* kzalloc(..., g)
Put       == [do |-> "put"]                \* dput, mntput or a last *_put

\* A step that may sleep: taking a mutex, a GFP_KERNEL allocation, and
\* dput/mntput, which may free a dentry or a vfsmount.
MaySleep(s) ==
  \/ s.do = "lock" /\ s.l \in Mutexes
  \/ s.do = "alloc" /\ s.gfp = "GFP_KERNEL"
  \/ s.do = "put"

-----------------------------------------------------------------------------
(* The programs of each entry point.                                       *)

\* redirfs_get_filename: ENAMETOOLONG inside the loop, the name of a
\* dentry of the root mount, and one `goto again` across a mount.
redirfs_get_filename ==
  { <<Lock("dcache"), Unlock("dcache")>>,
    <<Lock("dcache"), Unlock("dcache"), Put, Put>>,
    <<Lock("dcache"), Unlock("dcache"), Put,
      Lock("dcache"), Unlock("dcache"), Put, Put>> }

\* Mutant: rfs_path_mutex taken before s_vfs_rename_mutex.
redirfs_add_path_path_first ==
  { <<Lock("path"), Lock("rename"), Alloc("GFP_KERNEL"),
      Unlock("rename"), Unlock("path")>> }

\* rfs_path_add (rfs_path_alloc's kzalloc, or the ENOMEM `goto exit`)
\* under both mutexes; rfs_path_rem may put the last reference.
redirfs_add_path ==
  { <<Lock("rename"), Lock("path"), Alloc("GFP_KERNEL"),
      Unlock("path"), Unlock("rename")>>,
    <<Lock("rename"), Lock("path"), Alloc("GFP_KERNEL"), Put,
      Unlock("path"), Unlock("rename")>> }

\* rfs_path_rem_include/exclude and rfs_path_rem under both mutexes.
redirfs_rem_path ==
  { <<Lock("rename"), Lock("path"), Put, Unlock("path"), Unlock("rename")>> }

\* Mutant: the array allocated with GFP_KERNEL, as redirfs_get_paths does.
redirfs_get_paths_root_kernel ==
  { <<Lock("rroot"), Alloc("GFP_KERNEL"), Unlock("rroot")>> }

\* GFP_ATOMIC allocation under the root's spinlock, on both the ENOMEM
\* and the success path.
redirfs_get_paths_root ==
  { <<Lock("rroot"), Alloc("GFP_ATOMIC"), Unlock("rroot")>> }

\* GFP_KERNEL allocation under rfs_path_mutex, both paths.
redirfs_get_paths ==
  { <<Lock("path"), Alloc("GFP_KERNEL"), Unlock("path")>> }

\* ENOMEM before the lock; ENODATA and success unlock at the same line.
redirfs_get_path_info ==
  { <<Alloc("GFP_KERNEL")>>,
    <<Alloc("GFP_KERNEL"), Lock("path"), Unlock("path")>> }

redirfs_put_path_info == { <<Put, Put>> }

\* redirfs_get_paths, then redirfs_rem_path on the one path returned and
\* redirfs_put_paths; or the ENOMEM return of redirfs_get_paths.
redirfs_rem_paths ==
  redirfs_get_paths \cup
  { g \o r \o <<Put>> : g \in redirfs_get_paths, r \in redirfs_rem_path }

\* ENOMEM before the lock; no path citing the filter; and a name for one
\* cited path, which either fits or makes the function return its error
\* after unlocking.
rfs_path_get_info ==
  { <<Alloc("GFP_KERNEL")>>,
    <<Alloc("GFP_KERNEL"), Lock("path"), Unlock("path")>> } \cup
  { <<Alloc("GFP_KERNEL"), Lock("path")>> \o f \o <<Unlock("path")>> :
      f \in redirfs_get_filename }

\* A cross-directory rename: lock_rename takes s_vfs_rename_mutex, then
\* rfs_fsrename takes rfs_path_mutex, finds rroot_src == rroot_dst or runs
\* its phases, unlocks and puts the roots; the VFS unlocks last.  A rename
\* within one directory returns before the lock and takes neither mutex.
rfs_fsrename ==
  { <<Lock("rename"), Lock("path"), Unlock("path"), Put, Unlock("rename")>> }

Calls ==
  [get_filename  |-> redirfs_get_filename,
   add_path      |-> redirfs_add_path,
   rem_path      |-> redirfs_rem_path,
   get_paths_root |-> redirfs_get_paths_root,
   get_paths     |-> redirfs_get_paths,
   get_path_info |-> redirfs_get_path_info,
   put_path_info |-> redirfs_put_path_info,
   rem_paths     |-> redirfs_rem_paths,
   get_info      |-> rfs_path_get_info,
   rename        |-> rfs_fsrename]

-----------------------------------------------------------------------------
(* Threads.                                                                *)

Init ==
  /\ op = [t \in Threads |-> "idle"]
  /\ prog = [t \in Threads |-> <<>>]
  /\ owner = [l \in Locks |-> NoOwner]

\* A thread enters redirfs through one of its entry points.
Call(t) ==
  /\ op[t] = "idle"
  /\ \E c \in DOMAIN Calls : \E p \in Calls[c] :
       /\ op' = [op EXCEPT ![t] = c]
       /\ prog' = [prog EXCEPT ![t] = p]
  /\ UNCHANGED owner

\* mutex_lock or spin_lock: the thread blocks until the lock is free.
Acquire(t) ==
  /\ prog[t] # <<>>
  /\ Head(prog[t]).do = "lock"
  /\ owner[Head(prog[t]).l] = NoOwner
  /\ owner' = [owner EXCEPT ![Head(prog[t]).l] = t]
  /\ prog' = [prog EXCEPT ![t] = Tail(@)]
  /\ UNCHANGED op

Release(t) ==
  /\ prog[t] # <<>>
  /\ Head(prog[t]).do = "unlock"
  /\ owner' = [owner EXCEPT ![Head(prog[t]).l] = NoOwner]
  /\ prog' = [prog EXCEPT ![t] = Tail(@)]
  /\ UNCHANGED op

\* An allocation or a put: it never blocks on a lock of this file.
Work(t) ==
  /\ prog[t] # <<>>
  /\ Head(prog[t]).do \in {"alloc", "put"}
  /\ prog' = [prog EXCEPT ![t] = Tail(@)]
  /\ UNCHANGED <<op, owner>>

Return(t) ==
  /\ op[t] # "idle"
  /\ prog[t] = <<>>
  /\ op' = [op EXCEPT ![t] = "idle"]
  /\ UNCHANGED <<prog, owner>>

Next == \E t \in Threads : Call(t) \/ Acquire(t) \/ Release(t) \/ Work(t) \/ Return(t)

Spec == Init /\ [][Next]_vars

(* Fairness.  A running thread keeps running: its unlock, allocation, put  *)
(* and return steps are weakly fair.  A blocked thread is eventually       *)
(* granted a lock that is free infinitely often: the kernel mutex queues   *)
(* its waiters in FIFO order and wakes the first, and spinlocks are ticket *)
(* locks, so acquisition is strongly fair.  A thread need never call.      *)
FairSpec ==
  /\ Spec
  /\ \A t \in Threads :
       /\ SF_vars(Acquire(t))
       /\ WF_vars(Release(t) \/ Work(t) \/ Return(t))

-----------------------------------------------------------------------------
(* Properties.                                                             *)

(* No thread sleeps while it holds a spinlock: its next step never takes a *)
(* mutex, allocates with GFP_KERNEL or puts a reference while it owns      *)
(* dcache_lock or an rfs_root's lock (redirfs_get_paths_root allocates     *)
(* under rroot->lock, redirfs_get_filename drops dcache_lock before dput). *)
NoSleepInAtomic ==
  \A t \in Threads :
    prog[t] # <<>> /\ MaySleep(Head(prog[t])) =>
      \A l \in Spins : owner[l] # t

(* Every call into redirfs returns: with the lock order of the code        *)
(* (s_vfs_rename_mutex before rfs_path_mutex before dcache_lock) and every *)
(* error path unlocking what it took, no set of threads waits on each      *)
(* other and no lock is left held.                                         *)
CallsReturn ==
  \A t \in Threads : op[t] # "idle" ~> op[t] = "idle"

=============================================================================
