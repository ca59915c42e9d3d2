-------------------------- MODULE MCSearchTagFile --------------------------
(***************************************************************************)
(* SearchTagFile for TLC: two files in the directory of the command line   *)
(* and one in its subdirectory; three tags of which one is the longest.    *)
(***************************************************************************)
EXTENDS SearchTagFile, TLC

CONSTANTS f1, f2, f3, top, sub, back, n1, n2, n3, other

ParentOfEntry == (f1 :> top) @@ (f2 :> top) @@ (f3 :> sub) @@ (sub :> top)

NoTargets == << >>

(* One file in each directory, and in the lower one a link to the upper.   *)
ParentInLoop == (f2 :> top) @@ (f3 :> sub) @@ (sub :> top) @@ (back :> sub)

BackToTop == back :> top

Sizes == (n1 :> 1) @@ (n2 :> 1) @@ (n3 :> 3) @@ (other :> 1)

Nested == <<[name |-> n1, assignable |-> TRUE, depth |-> 0],
            [name |-> n2, assignable |-> TRUE, depth |-> 1],
            [name |-> n3, assignable |-> TRUE, depth |-> 2]>>

Apart == <<[name |-> n1, assignable |-> TRUE, depth |-> 0],
           [name |-> n2, assignable |-> TRUE, depth |-> 1],
           [name |-> n3, assignable |-> TRUE, depth |-> 0]>>

(* n3 is no tag of this tree.                                              *)
Small == SubSeq(Nested, 1, 2)

ThreeTrees == {Nested, Apart, Small}

With(sign, tag) == [sign |-> sign, tag |-> tag]

OneTree == {Nested}

RetagExpressions == {<<With("+", n1)>>, <<With("+", n1), With("_", n3)>>, <<With("?", n1)>>}

Searches ==
    {<< >>, <<With("+", n1)>>, <<With("_", n2)>>, <<With("+", n1), With("_", n3)>>,
     <<With("+", n3), With("+", n2)>>, <<With("+", n1), With("+", n3)>>, <<With("?", n1)>>}

Lists == {<< >>, <<other>>, <<n1>>, <<n3>>, <<n1, n2>>, <<other, n2>>, <<n3, n2>>, <<n3, other>>}

FewLists == {<< >>, <<n2>>, <<n3>>}

Nothing == {{}}

NothingOrFile == {{}, {f3}}

OneThing == {{}, {f1}, {f3}, {sub}, {top}}

=============================================================================
