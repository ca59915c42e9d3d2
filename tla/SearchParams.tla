---------------------------- MODULE SearchParams ----------------------------
(***************************************************************************)
(* get_tag_search_params (src/search-tag-file.c) and the arrays it fills,  *)
(* one string after the other: for each member of the expression an array  *)
(* of the names it stands for, which is then copied into the array of the  *)
(* wanted or of the unwanted members.                                      *)
(*                                                                         *)
(* SearchTagFile has the same function as one step and the arrays as sets; *)
(* this module has their memory.  A process that has written beyond it is  *)
(* not followed any further.                                               *)
(***************************************************************************)
EXTENDS TagTree

CONSTANTS
    Trees,              \* the tag trees the configuration file may hold
    Expressions         \* the expressions of the command line, tags of the tree

-----------------------------------------------------------------------------
(***************************************************************************)
(* RedimStringArray and RedimRedimStringArray.  Of their elements only the *)
(* sizes matter: allocated is the number of bytes the memory has, written  *)
(* how many bytes from its start on were written to.                       *)
(***************************************************************************)

EmptyArray == [nb_elt |-> 0, capacity |-> 0, allocated |-> 0, written |-> 0]

(* add_to_str_array and add_to_redim_array, for elements of size bytes.    *)
(* The capacity is compared to a number of elements and set to a number of *)
(* bytes.                                                                  *)
add_to_array(a, size) ==
    LET new_capacity == (a.capacity + 1) * 2 * size
        b == IF a.nb_elt + 1 >= a.capacity
             THEN [a EXCEPT !.capacity = new_capacity, !.allocated = new_capacity]
             ELSE a
    IN  [b EXCEPT !.nb_elt = @ + 1, !.written = size * (a.nb_elt + 1)]

(* All memory written to was allocated.                                    *)
InMemory(a) == a.written <= a.allocated

-----------------------------------------------------------------------------

PointerSize == 8        \* sizeof(char*)

ArraySize == 24         \* sizeof(RedimStringArray)

VARIABLES
    tree,               \* the tag tree of the process
    members,            \* the members of the expression still to be parsed
    names,              \* the names still to be added for the first of them
    str_array,          \* their array
    wanted_tags,        \* params->wanted_tags
    unwanted_tags,      \* params->unwanted_tags
    pc                  \* "member", "names" or "done"

vars == <<tree, members, names, str_array, wanted_tags, unwanted_tags, pc>>

Init ==
    /\ tree \in Trees
    /\ members \in Expressions
    /\ names = << >>
    /\ str_array = EmptyArray
    /\ wanted_tags = EmptyArray
    /\ unwanted_tags = EmptyArray
    /\ pc = "member"


(* add_tag_children and the tag itself: the names below a tag, in the      *)
(* order of the text, and its own name after them.                         *)
NamesFor(tag) ==
    LET i == get_tag(tree, tag)
    IN  [k \in 1 .. EndOfArray(tree, i, tree[i].depth + 1) - i |-> tree[i + k].name]
            \o <<tag>>

NextMember ==
    /\ pc = "member"
    /\ members # << >>
    /\ names' = NamesFor(Head(members).tag)
    /\ str_array' = EmptyArray
    /\ pc' = "names"
    /\ UNCHANGED <<tree, members, wanted_tags, unwanted_tags>>

AddName ==
    /\ pc = "names"
    /\ names # << >>
    /\ InMemory(str_array)
    /\ names' = Tail(names)
    /\ str_array' = add_to_array(str_array, PointerSize)
    /\ UNCHANGED <<tree, members, wanted_tags, unwanted_tags, pc>>

(* add_to_redim_array.                                                     *)
AddMember ==
    /\ pc = "names"
    /\ names = << >>
    /\ InMemory(wanted_tags) /\ InMemory(unwanted_tags)
    /\ IF Head(members).sign = "_"
       THEN /\ unwanted_tags' = add_to_array(unwanted_tags, ArraySize)
            /\ UNCHANGED wanted_tags
       ELSE /\ wanted_tags' = add_to_array(wanted_tags, ArraySize)
            /\ UNCHANGED unwanted_tags
    /\ members' = Tail(members)
    /\ pc' = "member"
    /\ UNCHANGED <<tree, names, str_array>>

Finish ==
    /\ pc = "member"
    /\ members = << >>
    /\ pc' = "done"
    /\ UNCHANGED <<tree, members, names, str_array, wanted_tags, unwanted_tags>>

Next == NextMember \/ AddName \/ AddMember \/ Finish

Spec == Init /\ [][Next]_vars

-----------------------------------------------------------------------------

(* "If [array] does not have enough memory to hold str, it is extended."   *)
(* It fails for the third name of a member: the capacity is a number of    *)
(* bytes where it is set and a number of strings where it is compared.     *)
ArrayHoldsNames == InMemory(str_array)

=============================================================================
