------------------------------ MODULE JsonList ------------------------------
(***************************************************************************)
(* The linked lists of cJSON (lib/cJSON.c) in the memory of manage-tag:    *)
(* one command after the other loads the file, moves cells from list to    *)
(* list, prints what it finds from the root on, and frees everything.      *)
(*                                                                         *)
(* A cell stands for the object of a tag together with the array of its    *)
(* children.  Its child is the first cell of that array, next and prev are *)
(* its neighbours in the array it is in.  The prev of the first cell is    *)
(* either NULL or the last cell: an append sets it and then relies on it,  *)
(* parsing leaves it NULL, detaching does not look after it.               *)
(***************************************************************************)
EXTENDS TagTree

CONSTANTS
    Command,        \* the command lines processes are started with
    Null,           \* the NULL of C
    MaxTags         \* bound: commands add no tag to a file of MaxTags tags

ASSUME MaxTagsAssumption == MaxTags \in Nat

\* NULL is the address of no cell.
ASSUME NullAssumption == Null \notin Nat

\* What main() of manage-tag makes of argv.
ASSUME CommandAssumption ==
    Command \subseteq      [op : {"a"}, tag : Name, assignable : BOOLEAN]
                      \cup [op : {"p"}, parent : Name, tag : Name, assignable : BOOLEAN]
                      \cup [op : {"r"}, tag : Name]

VARIABLES
    file,           \* the tree in the configuration file
    pc,             \* where the process is
    cmd,            \* its command line
    heap,           \* its cells; a cell that was freed keeps what it held
    freed,          \* the cells given to free(), in this order
    held            \* remove_tag's locals: the array, the tag, how many children

vars == <<file, pc, cmd, heap, freed, held>>

Root == 0           \* the root array; the cells of tags are numbered from 1

Cells(h) == DOMAIN h.next \ {Root}

(* What a pointer can be, and how many calls a recursion along pointers    *)
(* may nest: one for each cell, and one.                                   *)
Links(h) == Cells(h) \cup {Null}

MaxCalls(h) == Cardinality(Cells(h)) + 1

Calls(h) == 0 .. MaxCalls(h)

NothingHeld == [array |-> Root, object |-> Null, count |-> 0]

-----------------------------------------------------------------------------
(***************************************************************************)
(* The functions of cJSON: each takes the heap it finds and returns the    *)
(* heap it leaves.                                                         *)
(***************************************************************************)

FirstOf(positions) == IF positions = {} THEN Null ELSE Min(positions)
LastOf(positions) == IF positions = {} THEN Null ELSE Max(positions)

(* The positions in t of the children of the tag at i (or of the root).    *)
ChildrenOf(t, i) == {j \in DOMAIN t : ParentOf(t, j) = i}

SiblingsOf(t, i) == IF i = Root THEN {} ELSE ChildrenOf(t, ParentOf(t, i))

(* Mutant of parse_array: as later versions of cJSON, it makes the prev of *)
(* the first cell the last one; their detaching keeps it up to date.       *)
parse_array_SetsTail(t) ==
    LET cells == 0 .. Len(t)
    IN  [tag   |-> [i \in DOMAIN t |-> [name |-> t[i].name, assignable |-> t[i].assignable]],
         child |-> [i \in cells |-> FirstOf(ChildrenOf(t, i))],
         next  |-> [i \in cells |-> FirstOf({j \in SiblingsOf(t, i) : j > i})],
         prev  |-> [i \in cells |->
                       LET before == {j \in SiblingsOf(t, i) : j < i}
                       IN  IF before = {} THEN LastOf(SiblingsOf(t, i)) ELSE Max(before)]]

(* The cells of a text, one for each tag.                                  *)
parse_array(t) ==
    LET cells == 0 .. Len(t)
    IN  [tag   |-> [i \in DOMAIN t |-> [name |-> t[i].name, assignable |-> t[i].assignable]],
         child |-> [i \in cells |-> FirstOf(ChildrenOf(t, i))],
         next  |-> [i \in cells |-> FirstOf({j \in SiblingsOf(t, i) : j > i})],
         prev  |-> [i \in cells |-> LastOf({j \in SiblingsOf(t, i) : j < i})]]

(* A new cell: memory that was never used before.                          *)
NewCell(h) == Max(DOMAIN h.next) + 1

cJSON_New_Item(h, tag, assignable) ==
    LET new        == NewCell(h)
        With(f, x) == [c \in DOMAIN f \cup {new} |-> IF c = new THEN x ELSE f[c]]
    IN  [tag   |-> With(h.tag, [name |-> tag, assignable |-> assignable]),
         child |-> With(h.child, Null),
         next  |-> With(h.next, Null),
         prev  |-> With(h.prev, Null)]

(* The cells a walk along next meets from c on.  A walk in a ring, which   *)
(* would not end, is cut after one cell too many; so are the recursions    *)
(* below, whose n is likewise the number of calls they may still nest.     *)
Walk(h, c) ==
    LET from[n \in Calls(h)] ==
            [x \in Links(h) |->
                IF x = Null \/ n = 0 THEN << >> ELSE <<x>> \o from[n - 1][h.next[x]]]
    IN  from[MaxCalls(h)][c]

(* The list of an array.                                                   *)
Items(h, array) == Walk(h, h.child[array])

suffix_object(h, prev, item) ==
    [h EXCEPT !.next[prev] = item, !.prev[item] = prev]

add_item_to_array(h, array, item) ==
    LET first == h.child[array]
        last  == IF h.prev[first] # Null THEN h.prev[first] ELSE Last(Walk(h, first))
    IN  IF first = Null
        THEN [h EXCEPT !.child[array] = item, !.prev[item] = item, !.next[item] = Null]
        ELSE [suffix_object(h, last, item) EXCEPT !.prev[first] = item]

(* Mutants of cJSON_DetachItemViaPointer: the next cell keeps its prev;    *)
(* the detached cell keeps its next.                                       *)
cJSON_DetachItemViaPointer_OneWay(h, array, item) ==
    LET before == h.prev[item]
        after  == h.next[item]
        first  == item = h.child[array]
        h1 == IF first THEN [h EXCEPT !.child[array] = after] ELSE [h EXCEPT !.next[before] = after]
    IN  [h1 EXCEPT !.prev[item] = Null, !.next[item] = Null]

cJSON_DetachItemViaPointer_KeepsNext(h, array, item) ==
    LET before == h.prev[item]
        after  == h.next[item]
        first  == item = h.child[array]
        h1 == IF first THEN [h EXCEPT !.child[array] = after] ELSE [h EXCEPT !.next[before] = after]
        h2 == IF after = Null THEN h1 ELSE [h1 EXCEPT !.prev[after] = before]
    IN  [h2 EXCEPT !.prev[item] = Null]

(* The neighbours of the item are joined.  The prev of the first cell is   *)
(* not corrected when the item is the last one.                            *)
cJSON_DetachItemViaPointer(h, array, item) ==
    LET before == h.prev[item]
        after  == h.next[item]
        first  == item = h.child[array]
        h1 == IF first THEN [h EXCEPT !.child[array] = after] ELSE [h EXCEPT !.next[before] = after]
        h2 == IF after = Null THEN h1 ELSE [h1 EXCEPT !.prev[after] = before]
    IN  [h2 EXCEPT !.prev[item] = Null, !.next[item] = Null]

get_array_item(h, array, index) == Items(h, array)[index + 1]

cJSON_DetachItemFromArray(h, array, which) ==
    cJSON_DetachItemViaPointer(h, array, get_array_item(h, array, which))

(* What cJSON_Delete frees, in this order: of each cell along next, first  *)
(* what is below it, then the cell.                                        *)
cJSON_Delete(h, c) ==
    LET from[n \in Calls(h)] ==
            [x \in Links(h) |->
                IF x = Null \/ n = 0 THEN << >>
                ELSE from[n - 1][h.child[x]] \o <<x>> \o from[n - 1][h.next[x]]]
    IN  from[MaxCalls(h)][c]

-----------------------------------------------------------------------------
(***************************************************************************)
(* The functions of tag.c on these lists.                                  *)
(***************************************************************************)

(* The cells below the root array in the order of the text, with their     *)
(* depths: after a cell come its children, then the next cell.             *)
Preorder(h) ==
    LET from[n \in Calls(h)] ==
            [e \in [cell : Links(h), depth : Nat] |->
                IF e.cell = Null \/ n = 0 THEN << >>
                ELSE <<e>> \o from[n - 1][[cell |-> h.child[e.cell], depth |-> e.depth + 1]]
                          \o from[n - 1][[cell |-> h.next[e.cell], depth |-> e.depth]]]
    IN  from[MaxCalls(h)][[cell |-> h.child[Root], depth |-> 0]]

(* The text cJSON_Print makes of what can be reached from the root.        *)
cJSON_Print(h) ==
    LET order == Preorder(h)
    IN  [i \in DOMAIN order |->
            new_tag(h.tag[order[i].cell].name, h.tag[order[i].cell].assignable, order[i].depth)]

get_tag_cell(h, tag) ==
    LET i == SelectInSeq(Preorder(h), LAMBDA e : h.tag[e.cell].name = tag)
    IN  IF i = 0 THEN Null ELSE Preorder(h)[i].cell

(* The array a tag is in, and its index there.                             *)
get_parent_array(h, tag) ==
    LET c     == get_tag_cell(h, tag)
        array == CHOOSE a \in DOMAIN h.child : Contains(Items(h, a), c)
    IN  [array |-> array, index |-> SelectInSeq(Items(h, array), LAMBDA x : x = c) - 1]

-----------------------------------------------------------------------------
(***************************************************************************)
(* One process of manage-tag.                                              *)
(***************************************************************************)

Init ==
    /\ file = Skeleton
    /\ pc = "exited"
    /\ cmd = [op |-> "none"]
    /\ heap = parse_array(Skeleton)
    /\ freed = << >>
    /\ held = NothingHeld

Has(tag) == get_tag_cell(heap, tag) # Null

parse_config_file(c) ==
    /\ pc = "exited"
    /\ heap' = parse_array(file)
    /\ cmd' = c
    /\ pc' = "parsed"
    /\ freed' = << >>
    /\ held' = NothingHeld
    /\ UNCHANGED file

(* new_tag, and the append to the array of the parent or to the root.      *)
AppendTag(array) ==
    LET h == cJSON_New_Item(heap, cmd.tag, cmd.assignable)
    IN  /\ heap' = add_item_to_array(h, array, NewCell(heap))
        /\ pc' = "changed"
        /\ UNCHANGED <<file, cmd, freed, held>>

AddTag ==
    /\ pc = "parsed"
    /\ cmd.op = "a"
    /\ Len(file) < MaxTags
    /\ ~ Has(cmd.tag)
    /\ AppendTag(Root)

AddToParent ==
    /\ pc = "parsed"
    /\ cmd.op = "p"
    /\ Len(file) < MaxTags
    /\ Has(cmd.parent)
    /\ ~ Has(cmd.tag)
    /\ AppendTag(get_tag_cell(heap, cmd.parent))

(* remove_tag: the tag leaves its array.                                   *)
DetachTag ==
    LET found == get_parent_array(heap, cmd.tag)
        c     == get_array_item(heap, found.array, found.index)
    IN  /\ pc = "parsed"
        /\ cmd.op = "r"
        /\ Has(cmd.tag)
        /\ heap' = cJSON_DetachItemFromArray(heap, found.array, found.index)
        /\ held' = [array |-> found.array, object |-> c, count |-> Len(Items(heap, c))]
        /\ pc' = "reattach"
        /\ UNCHANGED <<file, cmd, freed>>

(* Mutant of ReattachChild: the children go to the root array.             *)
ReattachChild_Root ==
    LET c == get_array_item(heap, held.object, 0)
    IN  /\ pc = "reattach"
        /\ held.count > 0
        /\ heap' = add_item_to_array(cJSON_DetachItemFromArray(heap, held.object, 0), Root, c)
        /\ held' = [held EXCEPT !.count = @ - 1]
        /\ UNCHANGED <<file, pc, cmd, freed>>

(* One turn of its loop: the first child moves to the end of the array.    *)
ReattachChild ==
    LET c == get_array_item(heap, held.object, 0)
    IN  /\ pc = "reattach"
        /\ held.count > 0
        /\ heap' = add_item_to_array(cJSON_DetachItemFromArray(heap, held.object, 0), held.array, c)
        /\ held' = [held EXCEPT !.count = @ - 1]
        /\ UNCHANGED <<file, pc, cmd, freed>>

DeleteTag ==
    /\ pc = "reattach"
    /\ held.count = 0
    /\ freed' = freed \o cJSON_Delete(heap, held.object)
    /\ pc' = "changed"
    /\ UNCHANGED <<file, cmd, heap, held>>

write_config_file ==
    /\ pc = "changed"
    /\ file' = cJSON_Print(heap)
    /\ pc' = "done"
    /\ UNCHANGED <<cmd, heap, freed, held>>

(* The command cannot be done, or the bound is reached.                    *)
Refuse ==
    /\ pc = "parsed"
    /\ \/ cmd.op # "r" /\ (Has(cmd.tag) \/ Len(file) >= MaxTags)
       \/ cmd.op = "p" /\ ~ Has(cmd.parent)
       \/ cmd.op = "r" /\ ~ Has(cmd.tag)
    /\ pc' = "done"
    /\ UNCHANGED <<file, cmd, heap, freed, held>>

free_tags_tree ==
    /\ pc = "done"
    /\ freed' = freed \o cJSON_Delete(heap, heap.child[Root])
    /\ pc' = "exited"
    /\ UNCHANGED <<file, cmd, heap, held>>

Next ==
    \/ \E c \in Command : parse_config_file(c)
    \/ AddTag \/ AddToParent
    \/ DetachTag \/ ReattachChild \/ DeleteTag
    \/ Refuse
    \/ write_config_file
    \/ free_tags_tree

Spec == Init /\ [][Next]_vars

-----------------------------------------------------------------------------
(***************************************************************************)
(* Properties.                                                             *)
(***************************************************************************)

InUse(c) == c \notin Range(freed)

(* No cell is in two lists, or twice in one.                               *)
NotShared ==
    \A a, b \in DOMAIN heap.child : \A i \in DOMAIN Items(heap, a), j \in DOMAIN Items(heap, b) :
        InUse(a) /\ InUse(b) /\ Items(heap, a)[i] = Items(heap, b)[j] => a = b /\ i = j

(* After every step, also between the turns of the loop of remove_tag,     *)
(* the list of each array in use consists of cells in use, prev is the     *)
(* inverse of next, and the prev of the first cell is NULL or the last     *)
(* one.  The last is what add_item_to_array relies on and what             *)
(* cJSON_DetachItemViaPointer may destroy: the tail would be a cell that   *)
(* was taken out, or freed, and the next append would be lost behind it.   *)
ListsLinked ==
    pc # "exited" =>
        /\ NotShared
        /\ \A a \in {a \in DOMAIN heap.child : InUse(a) /\ heap.child[a] # Null} :
               LET list == Items(heap, a)
               IN  /\ \A i \in DOMAIN list : InUse(list[i])
                   /\ \A i \in 2 .. Len(list) : heap.prev[list[i]] = list[i - 1]
                   /\ heap.prev[Head(list)] \in {Null, Last(list)}

(* When the process ends each cell was freed, and none twice: the tag that *)
(* -r deletes on its own is no part of the tree any more, and takes no     *)
(* cell of it along.                                                       *)
EachFreedOnce ==
    /\ IsInjective(freed)
    /\ pc = "exited" => Range(freed) = Cells(heap)

Edits == INSTANCE TagEdits WITH tree <- file, lost <- FALSE

(* What a command writes is the tree TagEdits makes of the file: the walk  *)
(* along child and next finds after the pointer operations the tags, in    *)
(* the order and at the depths, that TagTree computes from positions.      *)
ListsImplementEdits == Edits!Spec

=============================================================================
