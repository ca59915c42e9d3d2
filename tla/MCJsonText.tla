----------------------------- MODULE MCJsonText -----------------------------
(***************************************************************************)
(* JsonText for TLC.                                                       *)
(***************************************************************************)
EXTENDS JsonText

Tag(name, children) == [name |-> name, children |-> children]

ShortNames == SeqOf(NameCharacter \ {"[", "{", "}", ":", ","}, 2)

(* Names that matter when the one before them ends in a backslash.         *)
OddNames ==
    {<<"backslash">>, <<"slash", "slash">>, <<"slash", "star">>, <<"star", "slash">>,
     <<"blank">>, <<"}", ",">>}

Leaf(name) == Tag(name, << >>)

(* Any short name, before, above or below an odd one; any three odd ones,  *)
(* side by side or one below the other.                                    *)
ShortDocuments ==
    LET Pairs(m, n) == {<<Leaf(m), Leaf(n)>>, <<Tag(m, <<Leaf(n)>>)>>}
        Triples(l, m, n) ==
            {<<Leaf(l), Leaf(m), Leaf(n)>>, <<Tag(l, <<Leaf(m)>>), Leaf(n)>>,
             <<Tag(l, <<Leaf(m), Leaf(n)>>)>>, <<Tag(l, <<Tag(m, <<Leaf(n)>>)>>)>>}
    IN  {<< >>}
        \cup UNION {Pairs(m, n) \cup Pairs(n, m) : m \in ShortNames, n \in OddNames}
        \cup UNION {Triples(l, m, n) : l, m, n \in OddNames}

=============================================================================
