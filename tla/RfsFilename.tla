----------------------------- MODULE RfsFilename -----------------------------
(***************************************************************************)
(* Display names of registered paths (src/redirfs/rfs_path.c):             *)
(* redirfs_get_filename, which writes the name of a (vfsmount, dentry)     *)
(* pair backwards into a caller's buffer, crossing mount points with       *)
(* follow_up, and rfs_path_get_info, which lists a filter's paths as       *)
(* "<i|e>:<id>:<name>" records, each ended by a NUL, into a sysfs buffer.  *)
(*                                                                         *)
(* Both functions are modelled byte by byte as operators: a buffer is a    *)
(* sequence of bytes, where the d_name.len bytes of a dentry's name are    *)
(* that many copies of the dentry, so every length, offset and truncation  *)
(* of the code is kept.  A driver calls them on every input of a small     *)
(* namespace and every buffer size up to a bound, and the properties       *)
(* compare the results with a top-down reference definition of the name.   *)
(***************************************************************************)
EXTENDS Integers, Sequences, FiniteSets, SequencesExt, FiniteSetsExt, TLC

CONSTANTS
  Dent,        \* dentries of all mounted filesystems
  DParent,     \* d_parent; a filesystem's root dentry is its own parent
  DLen,        \* d_name.len (the root dentry's name is "/")
  Mnts,        \* vfsmounts
  MntRoot,     \* mnt->mnt_root
  MntParent,   \* mnt->mnt_parent; the root mount is its own parent
  MntPoint,    \* mnt->mnt_mountpoint, a dentry of the parent mount
  Pairs,       \* the (vfsmount, dentry) pairs an rfs_path can hold
  Listings,    \* rfs_path_list contents: sequences of path records
  PageSize,    \* PAGE_SIZE, the name buffer of rfs_path_get_info
  MaxSize,     \* largest caller buffer size tried
  AllocFails   \* TRUE: the kzalloc of rfs_path_get_info may fail

ASSUME DParent \in [Dent -> Dent] /\ DLen \in [Dent -> Nat \ {0}]
ASSUME MntRoot \in [Mnts -> Dent] /\ MntParent \in [Mnts -> Mnts]
ASSUME MntPoint \in [Mnts -> Dent]
ASSUME Pairs \subseteq Mnts \X Dent
ASSUME \A l \in Listings : \A i \in DOMAIN l :
         /\ l[i].type \in {"i", "e", "-"}   \* "-": cites neither chain
         /\ <<l[i].mnt, l[i].dentry>> \in Pairs
         /\ l[i].id \in 0 .. 9               \* one decimal digit

VARIABLES
  call,   \* the last call the driver made and its arguments
  res     \* what it returned

vars == <<call, res>>

SLASH == "/"
NUL   == "NUL"   \* the byte 0

\* The d_name.len bytes of a dentry's name.
Name(d) == [i \in 1 .. DLen[d] |-> d]

-----------------------------------------------------------------------------
(* redirfs_get_filename                                                    *)

\* follow_up: TRUE and the mountpoint in the parent mount, unless m is the
\* root mount.
follow_up(m) == MntParent[m] # m

\* The loop under dcache_lock and the `goto again` across mounts.  buf is
\* what lies between end and the end of the caller's buffer, size what is
\* left in front of end.
RECURSIVE FilenameLoop(_, _, _, _)
FilenameLoop(m, d, size, buf) ==
  CASE d # MntRoot[m] /\ size - (DLen[d] + 1) < 0 ->
         [rv |-> "ENAMETOOLONG", size |-> size, buf |-> buf]
    [] d # MntRoot[m] ->
         FilenameLoop(m, DParent[d], size - (DLen[d] + 1),
                      <<SLASH>> \o Name(d) \o buf)
    [] follow_up(m) -> FilenameLoop(MntParent[m], MntPoint[m], size, buf)
    [] OTHER -> [rv |-> "OK", size |-> size, buf |-> buf]

\* Mutant: a slash added for the root name without counting it.
FilenameRootSlashUncounted(w) ==
  IF Head(w.buf) # SLASH THEN [w EXCEPT !.buf = <<SLASH>> \o @] ELSE w

\* `if (*end != '/')`: a name with no component is "/".
FilenameRootSlash(w) ==
  IF Head(w.buf) # SLASH THEN [w EXCEPT !.size = @ - 1, !.buf = <<SLASH>> \o @]
  ELSE w

\* The result: rv, the bytes left at the start of the caller's buffer
\* after memmove(buf, end, len - size), and that byte count n.
redirfs_get_filename(m, d, size) ==
  IF size < 2 THEN [rv |-> "ENAMETOOLONG", buf |-> <<>>, n |-> 0]
  ELSE
    LET w == FilenameLoop(m, d, size - 1, <<NUL>>)
        f == FilenameRootSlash(w)
    IN IF w.rv # "OK" THEN [rv |-> w.rv, buf |-> <<>>, n |-> 0]
       ELSE [rv |-> "OK", buf |-> f.buf, n |-> size - f.size]

-----------------------------------------------------------------------------
(* rfs_path_get_info                                                       *)

\* snprintf(buf + len, room, "%c:%d:%s", ...): the bytes it stores.
snprintf(room, rec) ==
  IF room <= 0 THEN <<>>
  ELSE SubSeq(rec, 1, IF Len(rec) < room THEN Len(rec) ELSE room - 1) \o <<NUL>>

\* The record of path p, its name taken from the PAGE_SIZE buffer.
Record(p, name) == <<p.type, ":", ToString(p.id), ":">> \o name

\* Mutant: the NUL after each record not counted.
GetInfoNextNoNul(len, rec) == len + Len(rec)

\* len += snprintf(...) + 1: the record and its NUL.
GetInfoNext(len, rec) == len + Len(rec) + 1

\* The list_for_each_entry loop: l is the rest of rfs_path_list, len the
\* bytes used so far, out the bytes stored in the caller's buffer.
RECURSIVE GetInfoLoop(_, _, _, _)
GetInfoLoop(l, size, len, out) ==
  IF l = <<>> THEN [rv |-> "OK", len |-> len, out |-> out]
  ELSE
    LET p == Head(l)
        f == redirfs_get_filename(p.mnt, p.dentry, PageSize)
        rec == Record(p, SelectSeq(f.buf, LAMBDA b : b # NUL))
        len2 == GetInfoNext(len, rec)
        out2 == out \o snprintf(size - len, rec)
    IN CASE p.type = "-" -> GetInfoLoop(Tail(l), size, len, out)
         [] f.rv # "OK"  -> [rv |-> f.rv, len |-> 0, out |-> out]
         [] len2 >= size -> [rv |-> "OK", len |-> size, out |-> out2]
         [] OTHER        -> GetInfoLoop(Tail(l), size, len2, out2)

rfs_path_get_info(l, size) == GetInfoLoop(l, size, 0, <<>>)

-----------------------------------------------------------------------------
(* The driver: one call per step, on any input.                            *)

Init ==
  /\ call = [kind |-> "none"]
  /\ res = [rv |-> "none"]

CallGetFilename ==
  \E p \in Pairs, size \in 0 .. MaxSize :
    /\ call' = [kind |-> "filename", mnt |-> p[1], dentry |-> p[2], size |-> size]
    /\ res' = redirfs_get_filename(p[1], p[2], size)

CallGetInfo ==
  \E l \in Listings, size \in 0 .. MaxSize :
    /\ call' = [kind |-> "info", list |-> l, size |-> size]
    /\ \/ /\ AllocFails   \* kzalloc of the PAGE_SIZE name buffer fails
          /\ res' = [rv |-> "ENOMEM", len |-> 0, out |-> <<>>]
       \/ res' = rfs_path_get_info(l, size)

Next == CallGetFilename \/ CallGetInfo

Spec == Init /\ [][Next]_vars

-----------------------------------------------------------------------------
(* Reference: the name of a pair written top-down, from the root mount.    *)

RECURSIVE AncOrSelf(_)
AncOrSelf(d) == IF DParent[d] = d THEN {d} ELSE {d} \cup AncOrSelf(DParent[d])

\* d lies in the tree the mount shows.
Visible(m, d) == MntRoot[m] \in AncOrSelf(d)

RECURSIVE DirPath(_, _)
DirPath(d, top) == IF d = top THEN <<>> ELSE DirPath(DParent[d], top) \o <<d>>

RECURSIVE MountPath(_, _)
MountPath(m, d) ==
  (IF MntParent[m] = m THEN <<>> ELSE MountPath(MntParent[m], MntPoint[m]))
  \o DirPath(d, MntRoot[m])

\* The NUL-terminated name: "/" for no component, else "/c1/c2...".
Canonical(m, d) ==
  LET c == MountPath(m, d)
  IN IF c = <<>> THEN <<SLASH, NUL>>
     ELSE FlattenSeq([i \in DOMAIN c |-> <<SLASH>> \o Name(c[i])]) \o <<NUL>>

\* The full listing of a filter's paths, each record followed by its NUL.
Listing(l) ==
  FlattenSeq([i \in DOMAIN SelectSeq(l, LAMBDA p : p.type # "-") |->
                LET p == SelectSeq(l, LAMBDA q : q.type # "-")[i]
                IN Record(p, Front(Canonical(p.mnt, p.dentry))) \o <<NUL>>])

LongestName == Max({Len(Canonical(p[1], p[2])) : p \in {q \in Pairs : Visible(q[1], q[2])}})

-----------------------------------------------------------------------------
(* Properties.                                                             *)

(* redirfs_get_filename of a dentry its mount shows succeeds exactly when  *)
(* the buffer holds the name and its NUL; it then leaves the name the      *)
(* mounts spell from the root mount down, and memmove moves exactly the    *)
(* bytes written, across every follow_up and the "/" of a mount root.      *)
FilenameMatchesPath ==
  call.kind = "filename" /\ Visible(call.mnt, call.dentry) =>
    LET want == Canonical(call.mnt, call.dentry)
    IN IF call.size >= Len(want)
       THEN res.rv = "OK" /\ res.buf = want /\ res.n = Len(want)
       ELSE res.rv = "ENAMETOOLONG"

(* rfs_path_get_info never stores past the sysfs buffer and returns the    *)
(* bytes it stored; when everything fits it stores the records of exactly  *)
(* the paths citing the filter, in list order, each ended by a NUL.        *)
GetInfoWithinBuffer ==
  call.kind = "info" /\ res.rv = "OK" =>
    /\ Len(res.out) <= call.size
    /\ res.len = Len(res.out)
    /\ res.len < call.size => res.out = Listing(call.list)

(* Spec 6: ENAMETOOLONG means the buffer is too small; a buffer as long as *)
(* the longest name in the namespace is enough for every registered path.  *)
NameTooLongOnlyWhenShort ==
  call.kind = "filename" /\ res.rv = "ENAMETOOLONG" => call.size < LongestName

=============================================================================
