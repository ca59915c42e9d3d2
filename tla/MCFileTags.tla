----------------------------- MODULE MCFileTags -----------------------------
(***************************************************************************)
(* FileTagsHistory for TLC: two users, the second of whom runs nothing.    *)
(***************************************************************************)
EXTENDS FileTagsHistory, TLC

CONSTANTS u1, u2

TagLists == {s \in [1 .. 2 -> Name] : s[1] # s[2]}

Lines(prog, tagLists) ==
    [user : {u1}, prog : {prog}, file : File, tags : tagLists]

AllLines ==
    Lines("assign", TagLists) \cup Lines("rm", TagLists)
        \cup Lines("clear", {<< >>}) \cup Lines("display", {<< >>})

Symmetry == Permutations(Proc) \cup Permutations(Name \ {EmptyName})

=============================================================================
