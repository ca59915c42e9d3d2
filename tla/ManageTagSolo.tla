--------------------------- MODULE ManageTagSolo ---------------------------
(***************************************************************************)
(* manage-tag when one process runs at a time: killed or failing writes    *)
(* included, it implements TagEdits.                                       *)
(***************************************************************************)
EXTENDS ManageTag

ASSUME SoloAssumption == \E p \in Proc : Proc = {p}

(* The command takes effect when it truncates the file: from there on the  *)
(* old tree is gone, and the new one, in memory, is written or lost.       *)
Lost == ~ Writing /\ ~ Readable

Effective ==
    IF Lost THEN Skeleton
    ELSE IF Writing THEN root[CHOOSE p \in Proc : pc[p] = "writing"]
    ELSE disk.tree

Edits == INSTANCE TagEdits WITH tree <- Effective, lost <- Lost

(* Every run of manage-tag, whatever happens to its process, is one of the *)
(* steps of TagEdits or none: the tree changes by exactly the command that *)
(* was asked for, or it is lost as a whole; it never comes back different. *)
ImplementsEdits == Edits!Spec

=============================================================================
