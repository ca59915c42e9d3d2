------------------------------ MODULE TagTree ------------------------------
(***************************************************************************)
(* The tag tree of the configuration file ~/.tagsys6.json and the          *)
(* operations src/tag.c and src/manage-tag.c perform on it in memory.      *)
(*                                                                         *)
(* The file is a JSON array of objects {name, assignable, children}, where *)
(* children is again such an array.  Here the tree is the sequence of its  *)
(* objects in the order their text appears in the file, each with its      *)
(* depth: the objects of the root array have depth 0.  Since the children  *)
(* of an object follow it, an array is found again from the depths alone:  *)
(*                                                                         *)
(*   [couleur [rouge, bleu], lieu]  is  <<couleur 0, rouge 1, bleu 1,      *)
(*                                        lieu 0>>                         *)
(*                                                                         *)
(* JsonTree.tla has the nested arrays and the recursive functions of the   *)
(* C code, and shows that the operators below compute the same trees.      *)
(***************************************************************************)
EXTENDS Naturals, Sequences, FiniteSets, SequencesExt

CONSTANTS
    Name,           \* the names a tag can have
    NestingLimit    \* CJSON_NESTING_LIMIT, 1000 in lib/cJSON.h

\* cJSON accepts the root array of a file: its limit is not zero.
ASSUME NestingLimitAssumption == NestingLimit \in Nat \ {0}

Tag == [name : Name, assignable : BOOLEAN, depth : Nat]

Tree == Seq(Tag)

\* What skeleton.json holds, the file "make install" copies: [].
Skeleton == << >>

Names(t) == {t[i].name : i \in DOMAIN t}

-----------------------------------------------------------------------------
(***************************************************************************)
(* Looking a tag up.                                                       *)
(***************************************************************************)

(* Mutant of get_tag: it does not descend into the children.               *)
get_tag_TopLevel(t, tag) ==
    SelectInSeq(t, LAMBDA node : node.name = tag /\ node.depth = 0)

(* The position of the first tag named tag, 0 if there is none.  The C     *)
(* function compares an object's name before it searches its children, and *)
(* both before the next object of the array: the order of the text.        *)
get_tag(t, tag) == SelectInSeq(t, LAMBDA node : node.name = tag)

(* Mutant of EndOfArray: it stops at the next tag of depth d.              *)
EndOfArray_Sibling(t, i, d) ==
    Min({j \in i .. Len(t) : j = Len(t) \/ t[j + 1].depth <= d})

(* The position of the last tag inside the array of depth d that holds, or *)
(* is held by, the tag at position i: the end of the text of that array.   *)
EndOfArray(t, i, d) ==
    Min({j \in i .. Len(t) : j = Len(t) \/ t[j + 1].depth < d})

-----------------------------------------------------------------------------
(***************************************************************************)
(* Changing the tree.  cJSON_AddItemToArray always appends to the array.   *)
(***************************************************************************)

new_tag(tag, assignable, depth) ==
    [name |-> tag, assignable |-> assignable, depth |-> depth]

(* manage-tag -a and -A: a new tag at the end of the root array.           *)
add_tag(t, tag, assignable) == Append(t, new_tag(tag, assignable, 0))

(* manage-tag -p and -P: a new tag at the end of the children of the tag   *)
(* at position i.                                                          *)
add_to_parent(t, i, tag, assignable) ==
    LET d   == t[i].depth + 1
        end == EndOfArray(t, i, d)
    IN  SubSeq(t, 1, end) \o <<new_tag(tag, assignable, d)>>
                          \o SubSeq(t, end + 1, Len(t))

(* One level up: what an array of children is in its grandparent's array.  *)
Lift(s) == [k \in DOMAIN s |-> [s[k] EXCEPT !.depth = @ - 1]]

(* Mutants of remove_tag: the children stay at their level; the siblings   *)
(* that follow the tag move up instead of its children.                    *)
remove_tag_NoLift(t, i) ==
    LET end      == EndOfArray(t, i, t[i].depth + 1)
        arrayEnd == EndOfArray(t, i, t[i].depth)
    IN  SubSeq(t, 1, i - 1) \o SubSeq(t, end + 1, arrayEnd)
                            \o SubSeq(t, i + 1, end)
                            \o SubSeq(t, arrayEnd + 1, Len(t))

remove_tag_LiftSiblings(t, i) ==
    LET end      == EndOfArray(t, i, t[i].depth + 1)
        arrayEnd == EndOfArray(t, i, t[i].depth)
    IN  SubSeq(t, 1, i - 1) \o Lift(SubSeq(t, end + 1, arrayEnd))
                            \o SubSeq(t, i + 1, end)
                            \o SubSeq(t, arrayEnd + 1, Len(t))

(* manage-tag -r: the tag at position i is detached from its array, its    *)
(* children (end is where they end) are appended to that array (which ends *)
(* at arrayEnd) and the tag is freed.                                      *)
remove_tag(t, i) ==
    LET end      == EndOfArray(t, i, t[i].depth + 1)
        arrayEnd == EndOfArray(t, i, t[i].depth)
    IN  SubSeq(t, 1, i - 1) \o SubSeq(t, end + 1, arrayEnd)
                            \o Lift(SubSeq(t, i + 1, end))
                            \o SubSeq(t, arrayEnd + 1, Len(t))

-----------------------------------------------------------------------------
(***************************************************************************)
(* The text of a tree.                                                     *)
(***************************************************************************)

(* The length of the text, in units: one for each tag and one for the      *)
(* brackets of the root array.  Only comparisons of lengths matter.        *)
TextSize(t) == Len(t) + 1

(* cJSON refuses to parse a value nested in NestingLimit others.  Below    *)
(* the root array, a tag of depth d is an object inside 2d + 1 values, and *)
(* its children are an array inside 2d + 2.                                *)
CanBeParsed(t) == \A i \in DOMAIN t : 2 * t[i].depth + 2 < NestingLimit

-----------------------------------------------------------------------------
(***************************************************************************)
(* Well-formed trees.                                                      *)
(***************************************************************************)

(* No two tags have the same name.                                         *)
Unique(t) == \A i, j \in DOMAIN t : t[i].name = t[j].name => i = j

(* The depths are those of a forest: the first tag is in the root array,   *)
(* and a tag is at most one level below the tag before it.                 *)
WellNested(t) ==
    /\ t # << >> => t[1].depth = 0
    /\ \A i \in 1 .. Len(t) - 1 : t[i + 1].depth <= t[i].depth + 1

(* The position of the tag that has the tag at position i among its        *)
(* children, 0 for a tag of the root array.                                *)
ParentOf(t, i) ==
    SelectLastInSubSeq(t, 1, i - 1, LAMBDA node : node.depth < t[i].depth)

=============================================================================
