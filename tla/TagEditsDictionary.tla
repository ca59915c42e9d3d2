------------------------- MODULE TagEditsDictionary -------------------------
(***************************************************************************)
(* The tree of TagEdits, seen as the dictionary of its tags.               *)
(***************************************************************************)
EXTENDS TagEdits

CONSTANT NoParent       \* what a tag of the top level has for a parent, no name

ParentName(t, n) ==
    LET q == ParentOf(t, get_tag(t, n))
    IN  IF q = 0 THEN NoParent ELSE t[q].name

ParentMap(t) == [n \in Names(t) |-> ParentName(t, n)]

AssignableMap(t) == [n \in Names(t) |-> t[get_tag(t, n)].assignable]

Dictionary == INSTANCE TagDictionary WITH
    parent     <- ParentMap(tree),
    assignable <- AssignableMap(tree)

(* The arithmetic on positions and depths that adds a tag after the last   *)
(* descendant of its parent, and that closes the gap of a removed tag and  *)
(* moves its children behind their uncles, changes the parent of the tags  *)
(* concerned and of no other: "ces fils [...] remonteront au parent        *)
(* suivant" (ARCHITECTURE.md).                                             *)
ImplementsDictionary == Dictionary!Spec

=============================================================================
