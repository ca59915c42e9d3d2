------------------------------ MODULE JsonTree ------------------------------
(***************************************************************************)
(* The commands of manage-tag on the nested JSON arrays of the             *)
(* configuration file, with the recursive functions of src/tag.c and       *)
(* src/manage-tag.c, one command after the other.                          *)
(*                                                                         *)
(* A user may have written the file by hand: an object can lack its name   *)
(* or its children, or its children can be something else than an array.   *)
(* The functions report each of these as INVALID_CONFIG_FILE, but not in   *)
(* the same places.  The root value is an array.                           *)
(***************************************************************************)
EXTENDS Integers, Sequences, FiniteSets, SequencesExt

CONSTANTS
    Name,
    NoName,         \* what get_name meets in an object with no string "name"
    NestingLimit,
    Files,          \* what the file may hold at first
    MaxObjects      \* bound: commands add no tag to a file of MaxObjects objects

ASSUME NoNameAssumption == NoName \notin Name

VARIABLE root       \* the array in the file

(* A value of "children": an array of objects, nothing, or another value.  *)
Array(items) == [kind |-> "array", items |-> items]
Absent == [kind |-> "absent", items |-> << >>]
NotArray == [kind |-> "other", items |-> << >>]

-----------------------------------------------------------------------------
(***************************************************************************)
(* Searching.  An object is named by its path, the indices that lead to it *)
(* from the root array; an array by the path of the object that has it.    *)
(***************************************************************************)

NotFound == [error |-> "NO_ERROR", found |-> FALSE, path |-> << >>]
Invalid  == [error |-> "INVALID_CONFIG_FILE", found |-> FALSE, path |-> << >>]
Found(path) == [error |-> "NO_ERROR", found |-> TRUE, path |-> path]

(* The outcome of a loop that goes on as long as an iteration found        *)
(* nothing without error.                                                  *)
FirstOutcome(outcomes) ==
    LET stops == {i \in DOMAIN outcomes : outcomes[i] # NotFound}
    IN  IF stops = {} THEN NotFound ELSE outcomes[Min(stops)]

RECURSIVE get_tag(_, _, _)
get_tag(array, path, tag) ==
    LET Visit(i) ==
            LET object == array.items[i]
            IN  IF object.name = NoName THEN Invalid
                ELSE IF object.name = tag THEN Found(Append(path, i))
                ELSE IF object.children = Absent THEN NotFound
                ELSE get_tag(object.children, Append(path, i), tag)
    IN  IF array.kind # "array" THEN Invalid
        ELSE FirstOutcome([i \in DOMAIN array.items |-> Visit(i)])

(* The same search for the array that holds the tag and its index there,   *)
(* counted from 0: a negative index says that nothing was found.           *)
NoIndex(error) == [error |-> error, index |-> -1, array |-> << >>]

(* Mutant of get_parent_array: the loop goes on after an error.            *)
RECURSIVE get_parent_array_AfterError(_, _, _)
get_parent_array_AfterError(array, path, tag) ==
    LET Visit(i) ==
            LET object == array.items[i]
            IN  IF object.name = tag
                THEN [error |-> "NO_ERROR", index |-> i - 1, array |-> path]
                ELSE get_parent_array_AfterError(object.children, Append(path, i), tag)
        returns == {i \in DOMAIN array.items : Visit(i).index >= 0}
    IN  IF returns = {} THEN NoIndex("NO_ERROR") ELSE Visit(Min(returns))

RECURSIVE get_parent_array(_, _, _)
get_parent_array(array, path, tag) ==
    LET Visit(i) ==
            LET object == array.items[i]
            IN  IF object.name = NoName THEN NoIndex("INVALID_CONFIG_FILE")
                ELSE IF object.name = tag
                THEN [error |-> "NO_ERROR", index |-> i - 1, array |-> path]
                ELSE IF object.children = Absent THEN NoIndex("NO_ERROR")
                ELSE get_parent_array(object.children, Append(path, i), tag)
        returns == {i \in DOMAIN array.items :
                        Visit(i).index >= 0 \/ Visit(i).error # "NO_ERROR"}
    IN  IF array.kind # "array" THEN NoIndex("INVALID_CONFIG_FILE")
        ELSE IF returns = {} THEN NoIndex("NO_ERROR")
        ELSE Visit(Min(returns))

(* An error and an absent tag are the same to the callers.                 *)
get_tag_checked(tag) == get_tag(root, << >>, tag).found

RECURSIVE ArrayAt(_, _)
ArrayAt(array, path) ==
    IF path = << >> THEN array
    ELSE ArrayAt(array.items[Head(path)].children, Tail(path))

(* array, with the one at path replaced by an array of items.              *)
RECURSIVE SetArray(_, _, _)
SetArray(array, path, items) ==
    IF path = << >> THEN Array(items)
    ELSE [array EXCEPT !.items[Head(path)].children = SetArray(@, Tail(path), items)]

(* Every object in the order of the text, as TagTree has them.             *)
RECURSIVE Preorder(_, _)
Preorder(array, depth) ==
    FlattenSeq([i \in DOMAIN array.items |->
        LET object == array.items[i]
        IN  <<[name |-> object.name, assignable |-> object.assignable, depth |-> depth]>>
            \o Preorder(object.children, depth + 1)])

-----------------------------------------------------------------------------
(***************************************************************************)
(* The commands.  One that fails leaves the file as it is.                 *)
(***************************************************************************)

new_tag(tag, assignable) ==
    [name |-> tag, assignable |-> assignable, children |-> Array(<< >>)]

AddTag(tag, assignable) ==
    /\ Len(Preorder(root, 0)) < MaxObjects
    /\ ~ get_tag_checked(tag)
    /\ root' = Array(Append(root.items, new_tag(tag, assignable)))

AddToParent(parent, tag, assignable) ==
    LET path     == get_tag(root, << >>, parent).path
        children == ArrayAt(root, path)
    IN  /\ Len(Preorder(root, 0)) < MaxObjects
        /\ get_tag_checked(parent)
        /\ ~ get_tag_checked(tag)
        /\ children.kind = "array"
        /\ root' = SetArray(root, path, Append(children.items, new_tag(tag, assignable)))

(* Mutants of RemoveTag: the children take the place of the tag; they are  *)
(* freed with it.                                                          *)
RemoveTag_InPlace(tag) ==
    LET found  == get_parent_array(root, << >>, tag)
        parent == ArrayAt(root, found.array).items
    IN  /\ get_tag_checked(tag)
        /\ root' = SetArray(root, found.array,
                            ReplaceFirstSubSeq(parent[found.index + 1].children.items,
                                               <<parent[found.index + 1]>>, parent))

RemoveTag_FreesChildren(tag) ==
    LET found  == get_parent_array(root, << >>, tag)
        parent == ArrayAt(root, found.array).items
    IN  /\ get_tag_checked(tag)
        /\ root' = SetArray(root, found.array, RemoveAt(parent, found.index + 1))

(* The tag is detached from its array, then its children are one by one    *)
(* detached and appended to that array.                                    *)
RemoveTag(tag) ==
    LET found  == get_parent_array(root, << >>, tag)
        parent == ArrayAt(root, found.array).items
        object == parent[found.index + 1]
    IN  /\ get_tag_checked(tag)
        /\ found.index >= 0
        /\ object.children.kind = "array"
        /\ root' = SetArray(root, found.array,
                            RemoveAt(parent, found.index + 1) \o object.children.items)

(* Mutant of list_available_tags: an object is left out if its children    *)
(* cannot be read.                                                         *)
RECURSIVE list_available_tags_ChildrenFirst(_, _)
list_available_tags_ChildrenFirst(array, level) ==
    LET Lines(object) ==
            IF object.name = NoName \/ object.children.kind # "array" THEN << >>
            ELSE <<[name |-> object.name, assignable |-> object.assignable, depth |-> level]>>
                 \o list_available_tags_ChildrenFirst(object.children, level + 1)
    IN  FlattenSeq([i \in DOMAIN array.items |-> Lines(array.items[i])])

(* The lines -l prints: an object without a name is left out with its      *)
(* children.                                                               *)
RECURSIVE list_available_tags(_, _)
list_available_tags(array, level) ==
    LET Lines(object) ==
            IF object.name = NoName THEN << >>
            ELSE <<[name |-> object.name, assignable |-> object.assignable, depth |-> level]>>
                 \o list_available_tags(object.children, level + 1)
    IN  FlattenSeq([i \in DOMAIN array.items |-> Lines(array.items[i])])

Init == root \in Files

Next ==
    \/ \E tag \in Name, a \in BOOLEAN : AddTag(tag, a)
    \/ \E parent, tag \in Name, a \in BOOLEAN : AddToParent(parent, tag, a)
    \/ \E tag \in Name : RemoveTag(tag)

Spec == Init /\ [][Next]_root

-----------------------------------------------------------------------------
(***************************************************************************)
(* Properties.                                                             *)
(***************************************************************************)

Flat == INSTANCE TagEdits WITH tree <- Preorder(root, 0), lost <- FALSE

(* A file as the commands themselves write it: every object has a name of  *)
(* its own and an array of children.                                       *)
RECURSIVE Complete(_)
Complete(array) ==
    /\ array.kind = "array"
    /\ \A i \in DOMAIN array.items : array.items[i].name # NoName /\ Complete(array.items[i].children)

Sound == Complete(root) /\ Flat!Unique(Preorder(root, 0))

(* On a sound file, the nested arrays, searched and changed recursively,   *)
(* make the steps of the sequences of TagTree: its arithmetic on positions *)
(* and depths is what detaching and appending in the arrays does.          *)
StepsAreEdits == [][Sound => Flat!Next]_root

(* get_tag, which main() asks, and get_parent_array, which remove_tag asks *)
(* next, find the same object in every file, damaged ones included.  So    *)
(* remove_tag never detaches another tag, nor gets to its message "not     *)
(* found in parent array! This should be reported as a bug".               *)
LookupsAgree ==
    \A tag \in Name :
        LET object == get_tag(root, << >>, tag)
            array  == get_parent_array(root, << >>, tag)
        IN  /\ object.error = array.error
            /\ object.found <=> array.index >= 0
            /\ object.found => object.path = Append(array.array, array.index + 1)

(* A tag that -a and -p refuse as existing, or that -r removes, is one     *)
(* that -l shows, though the listing skips what it cannot read while the   *)
(* lookup stops there.                                                     *)
FoundIsListed ==
    \A tag \in Name :
        get_tag_checked(tag) =>
            \E i \in DOMAIN list_available_tags(root, 0) :
                list_available_tags(root, 0)[i].name = tag

(* How many objects have each name, or none.                               *)
Copies(array) ==
    LET objects == Preorder(array, 0)
    IN  [n \in Name \cup {NoName} |->
            Cardinality({i \in DOMAIN objects : objects[i].name = n})]

(* A command on a damaged file makes one tag more or one less: objects it  *)
(* cannot read, and what is below them, stay in the file.                  *)
NothingElseLost ==
    [][\E tag \in Name :
           \/ Copies(root') = [Copies(root) EXCEPT ![tag] = @ + 1]
           \/ Copies(root') = [Copies(root) EXCEPT ![tag] = @ - 1]]_root

=============================================================================
