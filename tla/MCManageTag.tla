---------------------------- MODULE MCManageTag ----------------------------
(***************************************************************************)
(* ManageTag for TLC.                                                      *)
(***************************************************************************)
EXTENDS ManageTag

CONSTANTS n1, n2, n3

(* Every edit of a tree whose tags are all assignable.                     *)
Edits ==
         [op : {"a"}, tag : Name, assignable : {TRUE}]
    \cup [op : {"p"}, parent : Name, tag : Name, assignable : {TRUE}]
    \cup [op : {"r"}, tag : Name]

(* Those that make the trees of three tags up to the choice of the names:  *)
(* n1 at the top level, each other tag below one that comes before it.     *)
Before(n) == CASE n = n1 -> {} [] n = n2 -> {n1} [] n = n3 -> {n1, n2}

OrderedEdits ==
    {c \in Edits : /\ c.op = "a" => c.tag = n1
                   /\ c.op = "p" => c.parent \in Before(c.tag)}

=============================================================================
