------------------------------ MODULE TagEdits ------------------------------
(***************************************************************************)
(* The commands of manage-tag run one after the other, each as one step on *)
(* the tag tree: add_tag, add_to_parent and remove_tag of                  *)
(* src/manage-tag.c with the checks main() makes before it calls them.     *)
(*                                                                         *)
(* It is what manage-tag does when no two processes overlap: ManageTag     *)
(* with one process implements it, and so do JsonTree, which has the       *)
(* nested arrays, and JsonList, which has the cells and pointers.  It      *)
(* implements TagDictionary.                                               *)
(***************************************************************************)
EXTENDS TagTree

VARIABLES
    tree,       \* the tree in the file
    lost        \* the file cannot be loaded

editVars == <<tree, lost>>

Init ==
    /\ tree = Skeleton
    /\ lost = FALSE

Has(tag) == get_tag(tree, tag) # 0

Add(tag, assignable) ==
    /\ ~ lost
    /\ ~ Has(tag)
    /\ tree' = add_tag(tree, tag, assignable)
    /\ UNCHANGED lost

AddChild(parent, tag, assignable) ==
    /\ ~ lost
    /\ Has(parent)
    /\ ~ Has(tag)
    /\ tree' = add_to_parent(tree, get_tag(tree, parent), tag, assignable)
    /\ UNCHANGED lost

Delete(tag) ==
    /\ ~ lost
    /\ Has(tag)
    /\ tree' = remove_tag(tree, get_tag(tree, tag))
    /\ UNCHANGED lost

(* An interrupted or failed write, or a tree nested too deep for cJSON.    *)
Lose ==
    /\ ~ lost
    /\ tree' = Skeleton
    /\ lost' = TRUE

Next ==
    \/ \E tag \in Name, a \in BOOLEAN : Add(tag, a)
    \/ \E parent, tag \in Name, a \in BOOLEAN : AddChild(parent, tag, a)
    \/ \E tag \in Name : Delete(tag)
    \/ Lose

Spec == Init /\ [][Next]_editVars

=============================================================================
