------------------------------ MODULE LrfsVop ------------------------------
(***************************************************************************)
(* Vnode references across the two layers of an lrfs mount                *)
(* (src/redirfs/rfs_path.c, lines 1040 and on).                           *)
(*                                                                         *)
(* An lrfs vnode (an "upper" vnode) holds one reference on the lower       *)
(* vnode it stands for, from lrfs_nodeget until lrfs_reclaim.  A caller    *)
(* of a vnode operation holds references on its arguments, and the       *)
(* operation's descriptor says which of them the operation consumes        *)
(* (WILLRELE); on success an operation with a returned vnode, *vpp, hands  *)
(* the caller one new reference.  lrfs passes operations down by mapping   *)
(* every argument to its lower vnode (lrfs_bypass), or handles them itself *)
(* (lookup, rename, open, inactive); each must keep both layers' counts    *)
(* as the contract says, in particular where the lower call or            *)
(* lrfs_nodeget fails.                                                     *)
(*                                                                         *)
(* A step is one whole operation issued by the layer above (the VFS), on   *)
(* vnodes it holds references on, with any outcome of the lower file       *)
(* system and of lrfs_nodeget.  Only use counts are modelled: locks are    *)
(* LrfsVnode's, and the filter callbacks around each operation             *)
(* (lrfs_precallbacks_chain, lrfs_postcallbacks_chain) are external and    *)
(* change no count.                                                        *)
(***************************************************************************)
EXTENDS Naturals, Sequences, FiniteSetsExt, Bitwise

CONSTANTS
  Uppers,          \* lrfs vnodes of the mount
  Lowers,          \* vnodes of the lower file system
  LowerOf,         \* LRFSVPTOLOWERVP: the lower vnode of an lrfs vnode
  Root,            \* the mount's root vnode, referenced by the mount
  Foreign,         \* vnodes of other mounts
  NULLVP,          \* no vnode
  MaxHeld,         \* bound on the references the caller holds at once
  NodegetFailsIn   \* callers in which lrfs_nodeget may fail: "lookup", "bypass", "vptocnp"

ASSUME LowerOf \in [Uppers -> Lowers] /\ Root \in Uppers
ASSUME \A l \in Lowers : \E u \in Uppers : LowerOf[u] = l
ASSUME NodegetFailsIn \subseteq {"lookup", "bypass", "vptocnp"}

Vnodes == Uppers \cup Lowers \cup Foreign

\* The lrfs vnode lrfs_nodeget finds or makes for a lower vnode.
UpperOf(l) == CHOOSE u \in Uppers : LowerOf[u] = l

VARIABLES
  ref,    \* v_usecount of every vnode
  held,   \* held[v]: the references on v the caller holds
  rdonly, \* MNT_RDONLY of the lrfs mount
  vtype,  \* v_type of every lrfs vnode (that of its lower vnode)
  nd,     \* nd[op]: the directory and vnode a last-component lookup for
          \* CREATE, DELETE or RENAME gave the caller, or NoGrant
  written,\* the lower layer was called to modify the file system
  last    \* of the last operation: the vnode the lower layer returned in
          \* *vpp and the one the caller got

vars == <<ref, held, rdonly, vtype, nd, written, last>>

-----------------------------------------------------------------------------
(* Vnode operation descriptors (FreeBSD 8 sys/vnode.h, vnode_if.src).      *)

VDESC_VP0_WILLRELE == 1     \* bit i: the operation vrele's its i-th vnode
VDESC_NOMAP_VPP    == 256
VDESC_VPP_WILLRELE == 512

vop_open_desc   == [name |-> "open",   flags |-> 0,  vpp |-> FALSE]
vop_remove_desc == [name |-> "remove", flags |-> 0,  vpp |-> FALSE]
vop_create_desc == [name |-> "create", flags |-> 0,  vpp |-> TRUE]
vop_rename_desc == [name |-> "rename", flags |-> 15, vpp |-> FALSE]
vop_setattr_desc == [name |-> "setattr", flags |-> 0, vpp |-> FALSE]

WillRele(reles) == (reles & VDESC_VP0_WILLRELE) # 0

\* The vnodes an operation consumes: one reference per WILLRELE argument.
Released(d, args) ==
  [v \in Vnodes |-> Cardinality({i \in DOMAIN args :
                                   args[i] = v /\ WillRele(shiftR(d.flags, i - 1))})]

-----------------------------------------------------------------------------
(* Reference counting.  vrele of the last reference to an lrfs vnode runs  *)
(* VOP_INACTIVE, whose vrecycle reclaims it; lrfs_reclaim vputs the lower  *)
(* vnode.                                                                  *)

VREF(r, v) == [r EXCEPT ![v] = @ + 1]

\* Mutant: inactivation leaves the lower vnode referenced (no vrecycle).
lrfs_inactive_no_recycle(r, v) == [r EXCEPT ![v] = 0]

lrfs_inactive(r, v) == [r EXCEPT ![v] = 0, ![LowerOf[v]] = @ - 1]

vrele(r, v) ==
  IF v \in Uppers /\ r[v] = 1 THEN lrfs_inactive(r, v) ELSE [r EXCEPT ![v] = @ - 1]

\* lrfs_nodeget (not in this file), as its callers here use it: on success
\* *vpp is the lrfs vnode of l with a new reference, found in the hash
\* (the caller's reference on l is dropped) or made (it takes that
\* reference over); on failure the caller keeps its reference on l, which
\* do_lrfs_lookup and lrfs_vptocnp then vput.
lrfs_nodeget(r, l, ok) ==
  LET u == UpperOf(l)
  IN CASE ~ok     -> [r |-> r, vp |-> NULLVP, error |-> "ENOMEM"]
       [] r[u] > 0 -> [r |-> vrele(VREF(r, u), l), vp |-> u, error |-> "OK"]
       [] OTHER    -> [r |-> [r EXCEPT ![u] = 1], vp |-> u, error |-> "OK"]

-----------------------------------------------------------------------------
(* lrfs_bypass                                                             *)

\* Map the vnodes going in: the first always, the others only when they
\* are lrfs vnodes; a mapped WILLRELE vnode gets a reference (VREF on the
\* lower vnode now in the argument) for the lower operation to release.
RECURSIVE MapIn(_, _, _)
MapIn(i, reles, st) ==
  IF i > Len(st.a) THEN st
  ELSE LET v == st.a[i]
       IN IF i > 1 /\ v \notin Uppers
          THEN MapIn(i + 1, shiftR(reles, 1), [st EXCEPT !.old[i] = NULLVP])
          ELSE MapIn(i + 1, shiftR(reles, 1),
                     [st EXCEPT !.old[i] = v, !.a[i] = LowerOf[v],
                                !.r = IF WillRele(reles) THEN VREF(@, LowerOf[v]) ELSE @])

\* The lower operation (VCALL) releases its WILLRELE arguments whatever
\* its outcome.
RECURSIVE LowerRele(_, _, _, _)
LowerRele(i, reles, r, a) ==
  IF i > Len(a) THEN r
  ELSE LowerRele(i + 1, shiftR(reles, 1),
                 IF WillRele(reles) /\ a[i] # NULLVP THEN vrele(r, a[i]) ELSE r, a)

\* Restore the arguments and vrele the mapped WILLRELE lrfs vnodes.
RECURSIVE MapOut(_, _, _)
MapOut(i, reles, st) ==
  IF i > Len(st.a) THEN st
  ELSE IF st.old[i] = NULLVP THEN MapOut(i + 1, shiftR(reles, 1), st)
  ELSE MapOut(i + 1, shiftR(reles, 1),
              [st EXCEPT !.a[i] = st.old[i],
                         !.r = IF WillRele(reles) THEN vrele(@, st.old[i]) ELSE @])

\* The operation d on args; the lower layer ends with error err and, on
\* success of an operation with *vpp, returns the referenced lower vnode
\* res (unless the operation vreles it itself, VDESC_VPP_WILLRELE, when
\* lrfs_bypass maps nothing).  The EINVAL branch for a first vnode without
\* a lower vnode cannot be taken: an lrfs vnode keeps its lower vnode until
\* lrfs_reclaim, after which its operations are dead_vnodeops'.
lrfs_bypass(r0, d, args, err, res, ngok) ==
  LET in   == MapIn(1, d.flags, [r |-> r0, a |-> args,
                                 old |-> [i \in DOMAIN args |-> NULLVP]])
      ret  == d.vpp /\ err = "OK" /\ (d.flags & VDESC_VPP_WILLRELE) = 0
      low  == LowerRele(1, d.flags, in.r, in.a)
      out  == MapOut(1, d.flags, [in EXCEPT !.r = IF ret THEN VREF(low, res) ELSE low])
      ng   == lrfs_nodeget(out.r, res, ngok)
  IN CASE ~ret \/ (d.flags & VDESC_NOMAP_VPP) # 0 ->
            [r |-> out.r, error |-> err, vp |-> IF ret THEN res ELSE NULLVP, called |-> TRUE]
       [] OTHER -> [r |-> ng.r, error |-> ng.error, vp |-> ng.vp, called |-> TRUE]

\* sx_slock of the filter chain, the pre-callbacks, lrfs_bypass, the
\* post-callbacks and sx_sunlock: for the counts, lrfs_bypass.
lrfs_proceed_oper(r, d, args, err, res, ngok) == lrfs_bypass(r, d, args, err, res, ngok)

\* v_object copied from the lower vnode on success: no count changes.
lrfs_open(r, vp, err) == lrfs_proceed_oper(r, vop_open_desc, <<vp>>, err, NULLVP, TRUE)

Mount(v) == IF v \in Uppers THEN "lrfs" ELSE "other"

\* A cross-device rename releases all four arguments itself (vrele and
\* vput drop the same reference; they differ only in the lock, which is
\* why tdvp = tvp is vrele'd); any other goes down through lrfs_bypass.
lrfs_rename(r, args, err) ==
  LET fdvp == args[1]  fvp == args[2]  tdvp == args[3]  tvp == args[4]
      r1 == vrele(r, tdvp)
      r2 == IF tvp # NULLVP THEN vrele(r1, tvp) ELSE r1
  IN IF Mount(fvp) # Mount(tdvp) \/ (tvp # NULLVP /\ Mount(fvp) # Mount(tvp))
     THEN [r |-> vrele(vrele(r2, fdvp), fvp), error |-> "EXDEV", vp |-> NULLVP, called |-> FALSE]
     ELSE lrfs_proceed_oper(r, vop_rename_desc, args, err, NULLVP, TRUE)

-----------------------------------------------------------------------------
(* lrfs_lookup                                                             *)

\* Mutant: a name missing on a read-only mount is not refused.
LookupErrorNoRofs(lerr, cn) == lerr

\* A lookup for CREATE or RENAME of a missing last component on a
\* read-only mount fails with EROFS instead of EJUSTRETURN.
LookupError(lerr, cn) ==
  IF lerr = "EJUSTRETURN" /\ cn.islast /\ rdonly /\ cn.op \in {"CREATE", "RENAME"}
  THEN "EROFS" ELSE lerr

\* Mutant: the "." case hands up the lower vnode (*ap->a_vpp = lvp).
LookupDotUnmapped(r, dvp, lvp, err) ==
  [r |-> vrele(VREF(r, dvp), lvp), error |-> err, vp |-> lvp, called |-> TRUE]

\* The lower lookup found the directory itself ("."): VREF the lrfs
\* directory and hand it up, and drop the lower reference.
LookupDot(r, dvp, lvp, err) ==
  [r |-> vrele(VREF(r, dvp), lvp), error |-> err, vp |-> dvp, called |-> TRUE]

\* cn: the componentname's nameiop and ISLASTCN; the lower VOP_LOOKUP ends
\* with lerr and returns lvp (NULLVP, or a referenced lower vnode).
do_lrfs_lookup(r, dvp, cn, lerr, lvp, ngok) ==
  LET err == LookupError(lerr, cn)
      r1  == IF lvp # NULLVP THEN VREF(r, lvp) ELSE r
      ng  == lrfs_nodeget(r1, lvp, ngok)
  IN CASE cn.islast /\ rdonly /\ cn.op \in {"DELETE", "RENAME"} ->
            [r |-> r, error |-> "EROFS", vp |-> NULLVP, called |-> FALSE]
       [] err \notin {"OK", "EJUSTRETURN"} \/ lvp = NULLVP ->
            [r |-> r1, error |-> err, vp |-> NULLVP, called |-> TRUE]
       [] LowerOf[dvp] = lvp -> LookupDot(r1, dvp, lvp, err)
       [] ng.error # "OK" ->
            [r |-> vrele(r1, lvp), error |-> ng.error, vp |-> NULLVP, called |-> TRUE]
       [] OTHER -> [r |-> ng.r, error |-> err, vp |-> ng.vp, called |-> TRUE]

\* The chain lock and callbacks around do_lrfs_lookup.
lrfs_lookup(r, dvp, cn, lerr, lvp, ngok) == do_lrfs_lookup(r, dvp, cn, lerr, lvp, ngok)

-----------------------------------------------------------------------------
(* lrfs_setattr                                                            *)

\* va: the attributes set (not VNOVAL).  A write refused on a read-only
\* mount, a size change of a directory, or of a device, socket or fifo
\* (which is ignored) returns before the lower layer is called.
lrfs_setattr(r, vp, va, err) ==
  LET early(e) == [r |-> r, error |-> e, vp |-> NULLVP, called |-> FALSE]
      sized    == "size" \in va
  IN CASE va \cap {"flags", "uid", "gid", "atime", "mtime", "mode"} # {} /\ rdonly ->
            early("EROFS")
       [] sized /\ vtype[vp] = "VDIR" -> early("EISDIR")
       [] sized /\ vtype[vp] \in {"VCHR", "VBLK", "VSOCK", "VFIFO"} ->
            early(IF "flags" \in va THEN "EOPNOTSUPP" ELSE "OK")
       [] sized /\ rdonly -> early("EROFS")
       [] OTHER -> lrfs_proceed_oper(r, vop_setattr_desc, <<vp>>, err, NULLVP, TRUE)
-----------------------------------------------------------------------------
(* lrfs_vptocnp                                                            *)

\* The name of non-directory vp in its parent: the lower vn_vptocnp finds
\* the lower parent ldvp (lerr "OK", ldvp held; a lookup or vn_lock failure
\* is ENOENT), which is vref'd and mapped by lrfs_nodeget; the lrfs parent
\* is handed up with a hold only (vhold, vput), and on failure ldvp is
\* vput.  Holds keep a vnode from being freed, not from being inactivated,
\* and are not modelled.
lrfs_vptocnp(r, vp, lerr, ldvp, ngok) ==
  LET r1 == VREF(r, ldvp)
      ng == lrfs_nodeget(r1, ldvp, ngok)
  IN CASE lerr # "OK"      -> [r |-> r, error |-> "ENOENT", vp |-> NULLVP, called |-> TRUE]
       [] ng.error # "OK" -> [r |-> vrele(r1, ldvp), error |-> ng.error, vp |-> NULLVP, called |-> TRUE]
       [] OTHER           -> [r |-> vrele(ng.r, ng.vp), error |-> "OK", vp |-> ng.vp, called |-> TRUE]

-----------------------------------------------------------------------------
(* The caller: the VFS issues whole operations on vnodes it references.    *)
(* As namei and its callers do, it creates, removes or renames a name only *)
(* after a lookup of that last component, with the nameiop of the          *)
(* operation, allowed it.                                                  *)

NameiOps == {"CREATE", "DELETE", "RENAME"}
NoGrant  == [dvp |-> NULLVP, vp |-> NULLVP]
VTypes   == {"VREG", "VCHR"}   \* of the vnodes other than the root directory

\* The attributes chflags, chown, chmod, utimes and truncate set.
Vattrs == {{"flags"}, {"uid", "gid"}, {"mode"}, {"atime", "mtime"}, {"size"}}

Init ==
  /\ ref = [v \in Vnodes |-> IF v \in {Root, LowerOf[Root]} THEN 1 ELSE 0]
  /\ held = [v \in Vnodes |-> 0]
  /\ rdonly \in BOOLEAN
  /\ vtype \in {[u \in Uppers |-> IF u = Root THEN "VDIR" ELSE t[u]] : t \in [Uppers -> VTypes]}
  /\ nd = [op \in NameiOps |-> NoGrant]
  /\ written = FALSE
  /\ last = [lower |-> NULLVP, vp |-> NULLVP]

Room(n) == MapThenSumSet(LAMBDA v : held[v], Vnodes) + n <= MaxHeld

Held(S) == {v \in S : held[v] > 0}

\* The caller references every argument, one reference per WILLRELE one.
Covers(d, args) ==
  \A v \in Vnodes :
    LET n == Released(d, args)[v]
    IN held[v] >= IF n > 0 THEN n ELSE IF \E i \in DOMAIN args : args[i] = v THEN 1 ELSE 0

NodegetOk(caller) == IF caller \in NodegetFailsIn THEN BOOLEAN ELSE {TRUE}

LowerErrors == {"OK", "EIO"}

\* The caller's references after the call: the WILLRELE arguments are
\* gone, a returned vnode is the caller's.  A modifying operation that
\* reached the lower layer has written it.
Complete(name, lower, res, rel, modifies) ==
  /\ ref' = res.r
  /\ held' = [v \in Vnodes |-> held[v] - rel[v] + IF res.vp = v THEN 1 ELSE 0]
  /\ written' = (written \/ (modifies /\ res.called))
  /\ last' = [lower |-> lower, vp |-> res.vp]
  /\ UNCHANGED <<rdonly, vtype>>

\* VFS_ROOT, a vref of a vnode already held, or a vnode of another mount.
GetVnode ==
  /\ Room(1)
  /\ \E v \in {Root} \cup Held(Uppers) \cup Foreign :
       /\ ref' = VREF(ref, v)
       /\ held' = [held EXCEPT ![v] = @ + 1]
  /\ UNCHANGED <<rdonly, vtype, nd, written, last>>

\* vrele (or vput) of a reference the caller holds.
PutVnode ==
  /\ \E v \in Held(Vnodes) :
       /\ ref' = vrele(ref, v)
       /\ held' = [held EXCEPT ![v] = @ - 1]
  /\ UNCHANGED <<rdonly, vtype, nd, written, last>>

\* What the lower VOP_LOOKUP may end with: a missing name, a missing last
\* component to create or rename to, or a referenced vnode.
LowerLookups(cn) ==
  {[err |-> "ENOENT", vp |-> NULLVP]} \cup {[err |-> "OK", vp |-> l] : l \in Lowers} \cup
  (IF cn.islast /\ cn.op \in {"CREATE", "RENAME"}
   THEN {[err |-> "EJUSTRETURN", vp |-> NULLVP]} ELSE {})

\* The lookup result that lets the caller go on with the operation.
Allows(op, res) ==
  CASE op = "CREATE" -> res.error = "EJUSTRETURN"
    [] op = "DELETE" -> res.error = "OK" /\ res.vp # NULLVP
    [] op = "RENAME" -> res.error \in {"OK", "EJUSTRETURN"}

Lookup ==
  /\ Room(1)
  /\ \E dvp \in Held(Uppers), cn \in [op : {"LOOKUP"} \cup NameiOps, islast : BOOLEAN] :
       \E lo \in LowerLookups(cn), ok \in NodegetOk("lookup") :
         LET res == lrfs_lookup(ref, dvp, cn, lo.err, lo.vp, ok)
         IN /\ Complete("lookup", lo.vp, res, [v \in Vnodes |-> 0], FALSE)
            /\ nd' = IF cn.islast /\ cn.op \in NameiOps
                     THEN [nd EXCEPT ![cn.op] = IF Allows(cn.op, res)
                                                THEN [dvp |-> dvp, vp |-> res.vp]
                                                ELSE NoGrant]
                     ELSE nd

Open ==
  /\ \E vp \in Held(Uppers), err \in LowerErrors :
       Complete("open", NULLVP, lrfs_open(ref, vp, err), Released(vop_open_desc, <<vp>>), FALSE)
  /\ UNCHANGED nd

Setattr ==
  /\ \E vp \in Held(Uppers), va \in Vattrs, err \in LowerErrors :
       Complete("setattr", NULLVP, lrfs_setattr(ref, vp, va, err),
                Released(vop_setattr_desc, <<vp>>), TRUE)
  /\ UNCHANGED nd

Remove ==
  LET g == nd["DELETE"]
  IN /\ g.vp # NULLVP /\ held[g.dvp] > 0 /\ held[g.vp] > 0
     /\ \E err \in LowerErrors :
          Complete("remove", NULLVP,
                   lrfs_bypass(ref, vop_remove_desc, <<g.dvp, g.vp>>, err, NULLVP, TRUE),
                   Released(vop_remove_desc, <<g.dvp, g.vp>>), TRUE)
     /\ nd' = [nd EXCEPT !["DELETE"] = NoGrant]

\* VOP_CREATE returns the vnode of a new file: a lower vnode nobody uses.
Create ==
  LET g == nd["CREATE"]
  IN /\ Room(1)
     /\ g.dvp # NULLVP /\ held[g.dvp] > 0
     /\ \E err \in LowerErrors, res \in {l \in Lowers : ref[l] = 0}, ok \in NodegetOk("bypass") :
          Complete("create", IF err = "OK" THEN res ELSE NULLVP,
                   lrfs_bypass(ref, vop_create_desc, <<g.dvp>>, err, res, ok),
                   Released(vop_create_desc, <<g.dvp>>), TRUE)
     /\ nd' = [nd EXCEPT !["CREATE"] = NoGrant]

\* The source comes from a DELETE lookup; the target from a RENAME lookup
\* through lrfs, or from another mount (a caller, such as a layer stacked
\* above, that leaves the cross-device check to lrfs_rename).
Rename ==
  LET s == nd["DELETE"]
      Targets == (IF nd["RENAME"].dvp # NULLVP THEN {nd["RENAME"]} ELSE {}) \cup
                 [dvp : Held(Foreign), vp : Held(Foreign) \cup {NULLVP}]
  IN /\ s.vp # NULLVP
     /\ \E t \in Targets, err \in LowerErrors :
          LET args == <<s.dvp, s.vp, t.dvp, t.vp>>
          IN /\ Covers(vop_rename_desc, args)
             /\ Complete("rename", NULLVP, lrfs_rename(ref, args, err),
                         Released(vop_rename_desc, args), TRUE)
     /\ nd' = [op \in NameiOps |-> NoGrant]

\* vn_fullpath asking a non-directory vnode it holds for its parent's name
\* (a directory goes to vop_stdvptocnp instead).
Vptocnp ==
  /\ \E vp \in Held(Uppers), lerr \in {"OK", "ENOENT"}, ok \in NodegetOk("vptocnp") :
       /\ vtype[vp] # "VDIR"
       /\ \E ldvp \in {LowerOf[u] : u \in {w \in Uppers : vtype[w] = "VDIR"}} :
            LET res == lrfs_vptocnp(ref, vp, lerr, ldvp, ok)
            IN /\ ref' = res.r
               /\ last' = [lower |-> IF lerr = "OK" THEN ldvp ELSE NULLVP, vp |-> res.vp]
  /\ UNCHANGED <<held, rdonly, vtype, nd, written>>

Next ==
  GetVnode \/ PutVnode \/ Lookup \/ Open \/ Setattr \/ Remove \/ Create \/ Rename \/ Vptocnp

Spec == Init /\ [][Next]_vars

-----------------------------------------------------------------------------
(* Properties.                                                             *)

(* Between operations every use count is what its holders account for:    *)
(* the caller's references, the mount's on its root, and one on each lower *)
(* vnode from its live lrfs vnode.  So no operation of lrfs (lrfs_bypass's *)
(* VREF and vrele around the lower call, do_lrfs_lookup's "." case and its *)
(* lrfs_nodeget failure, lrfs_rename's EXDEV releases, inactivation)       *)
(* leaks or drops a reference on either layer.                             *)
RefsAccounted ==
  \A v \in Vnodes :
    ref[v] = held[v] + (IF v = Root THEN 1 ELSE 0)
                     + (IF v \in Lowers /\ ref[UpperOf(v)] > 0 THEN 1 ELSE 0)

(* Every vnode lrfs hands up is the lrfs vnode of the one the lower layer  *)
(* returned: no lower vnode escapes to the caller, whose later operations  *)
(* on it would pass by the filters.                                        *)
MapsReturnedVnode ==
  last.vp # NULLVP => last.vp \in Uppers /\ LowerOf[last.vp] = last.lower

(* On a read-only mount the lower file system is never written: a lookup  *)
(* refuses to let the caller delete, rename or create a name (the EROFS of *)
(* do_lrfs_lookup, before and after the lower lookup), and lrfs_setattr    *)
(* refuses every attribute change, so no create, remove, rename or setattr *)
(* reaches the lower layer.                                                *)
ReadOnlyLowerUnchanged == rdonly => ~written

=============================================================================
