--------------------------- MODULE MCSearchParams ---------------------------
(***************************************************************************)
(* SearchParams for TLC.                                                   *)
(***************************************************************************)
EXTENDS SearchParams

CONSTANTS n1, n2, n3

(* One tag with up to two tags below it.                                   *)
Chain == <<[name |-> n1, assignable |-> TRUE, depth |-> 0],
           [name |-> n2, assignable |-> TRUE, depth |-> 1],
           [name |-> n3, assignable |-> TRUE, depth |-> 2]>>

Chains == {SubSeq(Chain, 1, 2), Chain}

OneOrTwo ==
    LET Member == [sign : {"+", "_"}, tag : {n1, n2}]
    IN  {<<m>> : m \in Member} \cup {<<m, n>> : m, n \in Member}

=============================================================================
