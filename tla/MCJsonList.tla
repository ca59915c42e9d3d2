----------------------------- MODULE MCJsonList -----------------------------
(***************************************************************************)
(* JsonList for TLC.                                                       *)
(***************************************************************************)
EXTENDS JsonList

CONSTANT NoParent       \* what a tag of the top level has for a parent

ASSUME NoParentAssumption == NoParent \notin Name

(* Every command on every name; top-level tags are not assignable, so the  *)
(* two kinds are told apart when they meet in one list.                    *)
Commands ==
         [op : {"a"}, tag : Name, assignable : {FALSE}]
    \cup [op : {"p"}, parent : Name, tag : Name, assignable : {TRUE}]
    \cup [op : {"r"}, tag : Name]

Dictionary == INSTANCE TagEditsDictionary WITH tree <- file, lost <- FALSE

(* The commands, on cells and pointers, change the parents of the tags as  *)
(* the docs promise, and TagTree, which makes the same steps, with them.   *)
ImplementsDictionary == Dictionary!ImplementsDictionary

Symmetry == Permutations(Name)

=============================================================================
