---------------------------- MODULE PathRegistry ----------------------------
(***************************************************************************)
(* What the path registry promises its callers (spec 4.1, 4.2, 8): every   *)
(* (mount, dentry) pair has an include chain and an exclude chain of       *)
(* filters, in registration order, without duplicates, and no filter on    *)
(* both.  Registering appends the filter at the tail of the chain of its   *)
(* mode unless it is already on one of the two; unregistering takes it off *)
(* whichever chain holds it.  Nothing else ever changes a chain.           *)
(***************************************************************************)
EXTENDS Sequences, SequencesExt

CONSTANTS Filters, Dentries

VARIABLE reg   \* reg[d]: [inch |-> include chain, exch |-> exclude chain]

Chains == [inch : Seq(Filters), exch : Seq(Filters)]

On(d, f) == f \in Range(reg[d].inch) \cup Range(reg[d].exch)

Init == reg = [d \in Dentries |-> [inch |-> <<>>, exch |-> <<>>]]

Include(f, d) ==
  /\ ~On(d, f)
  /\ reg' = [reg EXCEPT ![d].inch = Append(@, f)]

Exclude(f, d) ==
  /\ ~On(d, f)
  /\ reg' = [reg EXCEPT ![d].exch = Append(@, f)]

Unregister(f, d) ==
  /\ On(d, f)
  /\ reg' = [reg EXCEPT ![d].inch = Remove(@, f), ![d].exch = Remove(@, f)]

Next ==
  \E f \in Filters, d \in Dentries :
    Include(f, d) \/ Exclude(f, d) \/ Unregister(f, d)

Spec == Init /\ [][Next]_reg
=============================================================================
