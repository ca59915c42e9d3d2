--------------------------- MODULE TagDictionary ---------------------------
(***************************************************************************)
(* What manage-tag promises about the tags, without the file and the       *)
(* arrays: each tag has a parent, or none, and is assignable or not.       *)
(* README.md and ARCHITECTURE.md describe the commands in these terms.     *)
(***************************************************************************)
EXTENDS Naturals, Functions

CONSTANTS
    Name,
    NoParent        \* the parent of a tag of the top level

VARIABLES
    parent,         \* parent[n]: the parent of the tag n, for the tags that exist
    assignable,     \* assignable[n]: whether files can be given the tag n
    lost            \* the tags cannot be loaded any more

dictionaryVars == <<parent, assignable, lost>>

Tags == DOMAIN parent

DictionaryTypeOK ==
    /\ Tags \subseteq Name
    /\ parent \in [Tags -> Tags \cup {NoParent}]
    /\ assignable \in [Tags -> BOOLEAN]
    /\ lost \in BOOLEAN

Init ==
    /\ parent = << >>
    /\ assignable = << >>
    /\ lost = FALSE

(* f with the value v for the new argument n.                              *)
With(f, n, v) == [m \in DOMAIN f \cup {n} |-> IF m = n THEN v ELSE f[m]]

(* A tag is added at the top level, or as a child of an existing tag: the  *)
(* name must be a new one, and nothing else changes.                       *)
Add(n, q, a) ==
    /\ ~ lost
    /\ n \notin Tags
    /\ q \in Tags \cup {NoParent}
    /\ parent' = With(parent, n, q)
    /\ assignable' = With(assignable, n, a)
    /\ UNCHANGED lost

(* A tag is removed, its children become children of its parent.           *)
Remove(n) ==
    /\ ~ lost
    /\ n \in Tags
    /\ parent' = [m \in Tags \ {n} |->
                      IF parent[m] = n THEN parent[n] ELSE parent[m]]
    /\ assignable' = Restrict(assignable, Tags \ {n})
    /\ UNCHANGED lost

(* All the tags become inaccessible, for ever.                             *)
Lose ==
    /\ ~ lost
    /\ parent' = << >>
    /\ assignable' = << >>
    /\ lost' = TRUE

Next ==
    \/ \E n \in Name, q \in Name \cup {NoParent}, a \in BOOLEAN : Add(n, q, a)
    \/ \E n \in Name : Remove(n)
    \/ Lose

Spec == Init /\ [][Next]_dictionaryVars

=============================================================================
