--------------------------- MODULE MC_RfsRename ---------------------------
(* Instantiates RfsRename for TLC: two filters, a four-dentry tree whose   *)
(* non-root dentries can each hold registrations, and renames of any      *)
(* directory under any other that is not below it.                        *)
EXTENDS RfsRename, TLC

CONSTANTS f1, f2, top, a, b, c

\* Chain order: f1 before f2.
PrioMC == <<f1, f2>>

\* top has children a and b; c is below a.  Renames reach every tree shape.
Parent0MC == (top :> None) @@ (a :> top) @@ (b :> top) @@ (c :> a)

=============================================================================
