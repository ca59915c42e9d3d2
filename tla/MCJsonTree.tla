----------------------------- MODULE MCJsonTree -----------------------------
(***************************************************************************)
(* JsonTree for TLC.                                                       *)
(***************************************************************************)
EXTENDS JsonTree, TLC

(* Files of at most two objects in the root array, which have at most one  *)
(* child each: every combination of names and of damages, in which names   *)
(* may also appear twice.  The skeleton is one of them.                    *)
ObjectsWith(arrays) ==
    [name : Name \cup {NoName}, assignable : {TRUE}, children : arrays \cup {Absent, NotArray}]

Leaves == ObjectsWith({Array(<< >>)})

HandWrittenFiles ==
    {Array(s) : s \in SeqOf(ObjectsWith({Array(s) : s \in SeqOf(Leaves, 1)}), 2)}

Symmetry == Permutations(Name)

=============================================================================
