-------------------------- MODULE JsonListTheorems --------------------------
(***************************************************************************)
(* The lists of cJSON stay linked and every cell is freed once, whatever   *)
(* commands manage-tag runs (ListsStayLinked, CellsAreFreedOnce), and what *)
(* it writes is what TagEdits makes of the file (ListsRefineEdits).        *)
(*                                                                         *)
(* The pointers of a heap are compared to one sequence of cells for each   *)
(* array: Linked says that they agree.  For each function of cJSON a lemma *)
(* says which sequences it leaves.  The recursions along pointers are      *)
(* recursive functions; they exist (IterationExists), have the equations   *)
(* they are written with, and by a least counterexample, instead of an     *)
(* induction, compute what they should on linked lists.                    *)
(*                                                                         *)
(* The sequences are compared to a tree by giving the cell of each         *)
(* position (Represents): then the walk along the pointers meets the       *)
(* positions one after the other (FollowsPreorder).                        *)
(***************************************************************************)
EXTENDS JsonList, TagTreeTheorems, FiniteSetTheorems

(***************************************************************************)
(* Recursive functions.                                                    *)
(***************************************************************************)

(* f starts with base and makes a step from each number to the next.       *)
Iterates(f, n, base, step) ==
    \A k \in 0 .. n : f[k] = IF k = 0 THEN base ELSE step[f[k - 1]]

(* Such a function exists, up to any number.                               *)
LEMMA IterationExists ==
    ASSUME NEW X, NEW base \in X, NEW step \in [X -> X], NEW n \in Nat
    PROVE  \E f \in [0 .. n -> X] : Iterates(f, n, base, step)
<1> DEFINE Without == {k \in Nat : ~ \E f \in [0 .. k -> X] : Iterates(f, k, base, step)}
           least == Min(Without)
<1>1. SUFFICES ASSUME Without # {} PROVE FALSE
  OBVIOUS
<1>2. least \in Without /\ \A k \in Without : least <= k
  BY <1>1, MinIsLeast
<1>3. /\ least \in Nat
      /\ ~ \E f \in [0 .. least -> X] : Iterates(f, least, base, step)
  BY <1>2
<1>4. least - 1 \notin Without
  <2>1. ~ (least <= least - 1)
    BY <1>3
  <2> HIDE DEF least, Without
  <2> QED
    BY <1>2, <2>1
<1> HIDE DEF least
<1>5. CASE least = 0
  <2> DEFINE f == [k \in 0 .. 0 |-> base]
  <2>1. f \in [0 .. 0 -> X] /\ Iterates(f, 0, base, step)
    BY DEF Iterates
  <2> QED
    BY <2>1, <1>3, <1>5
<1>6. CASE least # 0
  <2>1. least - 1 \in Nat /\ least \in Nat \ {0}
    BY <1>3, <1>6
  <2>2. PICK f \in [0 .. least - 1 -> X] : Iterates(f, least - 1, base, step)
    BY <1>4, <2>1
  <2> DEFINE g == [k \in 0 .. least |-> IF k = least THEN step[f[least - 1]] ELSE f[k]]
  <2>3. step[f[least - 1]] \in X
    BY <2>1
  <2>4. g \in [0 .. least -> X]
    BY <2>1, <2>3
  <2>5. \A k \in 0 .. least - 1 : f[k] = IF k = 0 THEN base ELSE step[f[k - 1]]
    BY <2>2 DEF Iterates
  <2>6. \A k \in 0 .. least : g[k] = IF k = 0 THEN base ELSE step[g[k - 1]]
    BY <2>1, <2>5
  <2> QED
    BY <2>4, <2>6, <1>3 DEF Iterates
<1> QED
  BY <1>5, <1>6

(***************************************************************************)
(* Heaps and the lists in them.                                            *)
(***************************************************************************)

Pointers(m) == 1 .. m \cup {Null}

(* The heaps with the cells 1 to m.                                        *)
Heaps(m) ==
    [tag   : [1 .. m -> [name : Name, assignable : BOOLEAN]],
     child : [0 .. m -> Pointers(m)],
     next  : [0 .. m -> Pointers(m)],
     prev  : [0 .. m -> Pointers(m)]]

(* One list for each array.                                                *)
ListsOf(m) == [0 .. m -> Seq(1 .. m)]

(* The sets that the recursions run over, in a heap with m cells.          *)
LEMMA HeapCells ==
    ASSUME NEW m \in Nat, NEW h \in Heaps(m)
    PROVE  /\ DOMAIN h.next = 0 .. m /\ DOMAIN h.child = 0 .. m
           /\ Cells(h) = 1 .. m
           /\ Links(h) = Pointers(m)
           /\ MaxCalls(h) = m + 1
           /\ Calls(h) = 0 .. m + 1
<1>1. DOMAIN h.next = 0 .. m /\ DOMAIN h.child = 0 .. m
  BY DEF Heaps
<1>2. Cells(h) = 1 .. m
  BY <1>1 DEF Cells, Root
<1>3. Cardinality(1 .. m) = m
  BY FS_Interval
<1> QED
  BY <1>1, <1>2, <1>3 DEF Links, MaxCalls, Calls, Pointers

(* The equation of Walk.                                                   *)
LEMMA WalkEquation ==
    ASSUME NEW m \in Nat, NEW h \in Heaps(m)
    PROVE  \E from :
              /\ \A n \in 0 .. m + 1, x \in Pointers(m) :
                     from[n][x] = IF x = Null \/ n = 0 THEN << >>
                                  ELSE <<x>> \o from[n - 1][h.next[x]]
              /\ \A c \in Pointers(m) : Walk(h, c) = from[m + 1][c]
<1> DEFINE X == [Pointers(m) -> Seq(1 .. m)]
           base == [x \in Pointers(m) |-> << >>]
           Step(g) == [x \in Pointers(m) |-> IF x = Null THEN << >> ELSE <<x>> \o g[h.next[x]]]
           step == [g \in X |-> Step(g)]
           IsFrom(f) == f = [n \in Calls(h) |-> [x \in Links(h) |->
                                IF x = Null \/ n = 0 THEN << >>
                                ELSE <<x>> \o f[n - 1][h.next[x]]]]
           from == CHOOSE f : IsFrom(f)
<1>1. base \in X
  OBVIOUS
<1>2. \A x \in Pointers(m) : x # Null => x \in 1 .. m /\ h.next[x] \in Pointers(m)
  BY DEF Pointers, Heaps
<1>3. step \in [X -> X]
  <2> SUFFICES ASSUME NEW g \in X
               PROVE  Step(g) \in X
    OBVIOUS
  <2>1. ASSUME NEW x \in Pointers(m), x # Null
        PROVE  <<x>> \o g[h.next[x]] \in Seq(1 .. m)
    <3>1. <<x>> \in Seq(1 .. m) /\ g[h.next[x]] \in Seq(1 .. m)
      BY <1>2, <2>1
    <3> QED
      BY <3>1, ConcatProperties
  <2>2. << >> \in Seq(1 .. m)
    OBVIOUS
  <2> QED
    BY <2>1, <2>2
<1>4. PICK f \in [0 .. m + 1 -> X] : Iterates(f, m + 1, base, step)
  <2> HIDE DEF X, base, step
  <2> QED
    BY <1>1, <1>3, IterationExists
<1>5. IsFrom(f)
  <2> DEFINE F == [n \in 0 .. m + 1 |-> [x \in Pointers(m) |->
                      IF x = Null \/ n = 0 THEN << >> ELSE <<x>> \o f[n - 1][h.next[x]]]]
  <2>1. \A n \in 0 .. m + 1 : f[n] = F[n]
    <3> SUFFICES ASSUME NEW n \in 0 .. m + 1
                 PROVE  f[n] = F[n]
      OBVIOUS
    <3>1. CASE n = 0
      <4>1. f[n] = base
        BY <1>4, <3>1 DEF Iterates
      <4> QED
        BY <3>1, <4>1
    <3>2. CASE n # 0
      <4>1. n - 1 \in 0 .. m + 1 /\ f[n - 1] \in X
        BY <1>4, <3>2
      <4>2. f[n] = step[f[n - 1]]
        BY <1>4, <3>2 DEF Iterates
      <4>3. f[n] = Step(f[n - 1])
        BY <4>1, <4>2
      <4> QED
        BY <3>2, <4>3
    <3> QED
      BY <3>1, <3>2
  <2>2. f = F
    <3> HIDE DEF X, base, step
    <3>1. f = [n \in 0 .. m + 1 |-> f[n]]
      OBVIOUS
    <3> QED
      BY <2>1, <3>1
  <2> QED
    BY <2>2, HeapCells
<1>6. IsFrom(from)
  BY <1>5
<1>7. \A c \in Pointers(m) : Walk(h, c) = from[m + 1][c]
  BY HeapCells DEF Walk
<1> DEFINE Value(g, n, x) == IF x = Null \/ n = 0 THEN << >> ELSE <<x>> \o g[h.next[x]]
<1>8. from = [n \in 0 .. m + 1 |-> [x \in Pointers(m) |-> Value(from[n - 1], n, x)]]
  BY <1>6, HeapCells
<1> HIDE DEF from, Value
<1>9. \A n \in 0 .. m + 1, x \in Pointers(m) : from[n][x] = Value(from[n - 1], n, x)
  <2> SUFFICES ASSUME NEW n \in 0 .. m + 1, NEW x \in Pointers(m)
               PROVE  from[n][x] = Value(from[n - 1], n, x)
    OBVIOUS
  <2>1. from[n] = [y \in Pointers(m) |-> Value(from[n - 1], n, y)]
    BY <1>8, Zenon
  <2> QED
    BY <2>1, Zenon
<1> QED
  BY <1>7, <1>9 DEF Value

(***************************************************************************)
(* The list of an array: child is its first cell, next and prev are the    *)
(* neighbours in it, and the prev of the first cell is Null or the last    *)
(* cell.                                                                   *)
(***************************************************************************)

FirstLinked(h, m, L) ==
    \A a \in 0 .. m :
        IF L[a] = << >> THEN h.child[a] = Null
        ELSE /\ h.child[a] = L[a][1]
             /\ h.prev[L[a][1]] \in {Null, L[a][Len(L[a])]}
             /\ h.next[L[a][Len(L[a])]] = Null

NeighboursLinked(h, m, L) ==
    \A a \in 0 .. m : \A k \in 1 .. Len(L[a]) - 1 :
        /\ h.next[L[a][k]] = L[a][k + 1]
        /\ h.prev[L[a][k + 1]] = L[a][k]

(* No cell is in two lists, or twice in one.                               *)
Disjoint(m, L) ==
    \A a, b \in 0 .. m : \A i \in 1 .. Len(L[a]), j \in 1 .. Len(L[b]) :
        L[a][i] = L[b][j] => a = b /\ i = j

Linked(h, m, L) ==
    FirstLinked(h, m, L) /\ NeighboursLinked(h, m, L) /\ Disjoint(m, L)

(* The lists are sequences of cells.                                       *)
LEMMA ListElements ==
    ASSUME NEW m \in Nat, NEW L \in ListsOf(m), NEW a \in 0 .. m
    PROVE  /\ L[a] \in Seq(1 .. m) /\ Len(L[a]) \in Nat /\ DOMAIN L[a] = 1 .. Len(L[a])
           /\ \A k \in 1 .. Len(L[a]) : L[a][k] \in 1 .. m
           /\ L[a] = << >> <=> Len(L[a]) = 0
<1>1. L[a] \in Seq(1 .. m)
  BY DEF ListsOf
<1> QED
  BY <1>1

(* A list has no more elements than there are cells.                       *)
LEMMA ListsAreShort ==
    ASSUME NEW m \in Nat, NEW L \in ListsOf(m), Disjoint(m, L), NEW a \in 0 .. m
    PROVE  Len(L[a]) <= m
<1>1. /\ L[a] \in [1 .. Len(L[a]) -> 1 .. m] /\ Len(L[a]) \in Nat
  BY ListElements
<1>2. /\ IsFiniteSet(1 .. m) /\ Cardinality(1 .. m) = m
      /\ IsFiniteSet(1 .. Len(L[a])) /\ Cardinality(1 .. Len(L[a])) = Len(L[a])
  <2>1. \A n \in Nat : IsFiniteSet(1 .. n) /\ Cardinality(1 .. n) = n
    BY FS_Interval
  <2> QED
    BY <1>1, <2>1
<1>3. \A i, j \in 1 .. Len(L[a]) : L[a][i] = L[a][j] => i = j
  BY DEF Disjoint
<1>4. ~ (m < Len(L[a]))
  <2> SUFFICES ASSUME m < Len(L[a])
               PROVE  FALSE
    OBVIOUS
  <2>1. \E i, j \in 1 .. Len(L[a]) : i # j /\ L[a][i] = L[a][j]
    <3> DEFINE f == L[a]
               P == 1 .. Len(f)
               C == 1 .. m
    <3>1. /\ IsFiniteSet(P) /\ IsFiniteSet(C) /\ Cardinality(C) < Cardinality(P)
          /\ f \in [P -> C]
      BY <1>1, <1>2
    <3> HIDE DEF P, C, f
    <3>2. \E x, y \in P : x # y /\ f[x] = f[y]
      BY <3>1, FS_PigeonHole
    <3> QED
      BY <3>2 DEF P, f
  <2> QED
    BY <1>3, <2>1
<1> QED
  BY <1>1, <1>4

(* The end of a sequence from k on is its element k and the end behind it. *)
LEMMA EndOfSequence ==
    ASSUME NEW S, NEW s \in Seq(S), NEW k \in 1 .. Len(s)
    PROVE  /\ k = Len(s) => SubSeq(s, k, Len(s)) = <<s[k]>> \o << >>
           /\ k < Len(s) => SubSeq(s, k, Len(s)) = <<s[k]>> \o SubSeq(s, k + 1, Len(s))
           /\ SubSeq(s, 1, Len(s)) = s
<1>1. Len(s) \in Nat /\ \A i \in 1 .. Len(s) : s[i] \in S
  OBVIOUS
<1>2. CASE k = Len(s)
  <2>1. SubSeq(s, k, Len(s)) = <<s[k]>>
    <3> DEFINE r == SubSeq(s, k, Len(s))
    <3>1. r \in Seq(S) /\ Len(r) = 1 /\ r[1] = s[k]
      BY <1>1, <1>2
    <3> HIDE DEF r
    <3>2. r = <<s[k]>>
      BY <3>1
    <3> QED
      BY <3>2 DEF r
  <2>2. <<s[k]>> \o << >> = <<s[k]>>
    BY <1>1
  <2> QED
    BY <1>2, <2>1, <2>2
<1>3. CASE k < Len(s)
  <2> DEFINE r == SubSeq(s, k + 1, Len(s))
             q == <<s[k]>> \o r
  <2>1. /\ r \in Seq(S) /\ Len(r) = Len(s) - k
        /\ \A i \in 1 .. Len(s) - k : r[i] = s[k + i]
    BY <1>1, <1>3
  <2>2. <<s[k]>> \in Seq(S) /\ Len(<<s[k]>>) = 1 /\ <<s[k]>>[1] = s[k]
    BY <1>1
  <2> HIDE DEF r
  <2>3. /\ q \in Seq(S) /\ Len(q) = Len(s) - k + 1
        /\ \A i \in 1 .. Len(s) - k + 1 : q[i] = IF i = 1 THEN s[k] ELSE r[i - 1]
    BY <1>1, <2>1, <2>2, ConcatProperties
  <2> HIDE DEF q
  <2>4. \A i \in 1 .. Len(s) - k + 1 : q[i] = s[k + i - 1]
    <3> SUFFICES ASSUME NEW i \in 1 .. Len(s) - k + 1
                 PROVE  q[i] = s[k + i - 1]
      OBVIOUS
    <3>1. CASE i = 1
      BY <1>1, <2>3, <3>1
    <3>2. CASE i # 1
      <4>1. i - 1 \in 1 .. Len(s) - k /\ k + (i - 1) = k + i - 1
        BY <1>1, <3>2
      <4>2. q[i] = r[i - 1]
        BY <2>3, <3>2
      <4> QED
        BY <2>1, <4>1, <4>2
    <3> QED
      BY <3>1, <3>2
  <2>5. SubSeq(s, k, Len(s)) = q
    BY <1>1, <2>3, <2>4
  <2> QED
    BY <1>3, <2>5 DEF q, r
<1>4. SubSeq(s, 1, Len(s)) = s
  BY <1>1
<1> QED
  BY <1>1, <1>2, <1>3, <1>4

(* Items returns the list of an array.                                     *)
LEMMA WalkList ==
    ASSUME NEW m \in Nat, NEW h \in Heaps(m), NEW L \in ListsOf(m), Linked(h, m, L),
           NEW a \in 0 .. m
    PROVE  /\ \A k \in 1 .. Len(L[a]) : Walk(h, L[a][k]) = SubSeq(L[a], k, Len(L[a]))
           /\ Items(h, a) = L[a]
<1>1. PICK from :
         /\ \A n \in 0 .. m + 1, x \in Pointers(m) :
                from[n][x] = IF x = Null \/ n = 0 THEN << >>
                             ELSE <<x>> \o from[n - 1][h.next[x]]
         /\ \A c \in Pointers(m) : Walk(h, c) = from[m + 1][c]
  BY WalkEquation
<1> DEFINE s == L[a]
<1>2. /\ s \in Seq(1 .. m) /\ Len(s) \in Nat
      /\ \A k \in 1 .. Len(s) : s[k] \in 1 .. m /\ s[k] \in Pointers(m) /\ s[k] # Null
  BY ListElements, NullAssumption DEF Pointers
<1>3. Len(s) <= m
  BY ListsAreShort DEF Linked
<1>4. \A k \in 1 .. Len(s) : h.next[s[k]] = IF k = Len(s) THEN Null ELSE s[k + 1]
  <2> SUFFICES ASSUME NEW k \in 1 .. Len(s)
               PROVE  h.next[s[k]] = IF k = Len(s) THEN Null ELSE s[k + 1]
    OBVIOUS
  <2>1. CASE k = Len(s)
    BY <1>2, <2>1, ListElements DEF Linked, FirstLinked
  <2>2. CASE k # Len(s)
    <3>1. k \in 1 .. Len(s) - 1
      BY <1>2, <2>2
    <3> QED
      BY <2>2, <3>1 DEF Linked, NeighboursLinked
  <2> QED
    BY <2>1, <2>2
<1> DEFINE Good(n) == \A k \in 1 .. Len(s) :
               Len(s) - k < n => from[n][s[k]] = SubSeq(s, k, Len(s))
           Bad == {n \in 0 .. m + 1 : ~ Good(n)}
           least == Min(Bad)
<1>5. Bad = {}
  <2> SUFFICES ASSUME Bad # {}
               PROVE  FALSE
    OBVIOUS
  <2>1. least \in Bad /\ \A n \in Bad : least <= n
    <3>1. Bad \subseteq Nat
      OBVIOUS
    <3> HIDE DEF Bad
    <3> QED
      BY <3>1, MinIsLeast
  <2>2. least \in 0 .. m + 1 /\ ~ Good(least)
    BY <2>1
  <2> HIDE DEF least
  <2>3. PICK k \in 1 .. Len(s) : Len(s) - k < least /\ from[least][s[k]] # SubSeq(s, k, Len(s))
    BY <2>2
  <2>4. least - 1 \in 0 .. m + 1 /\ least # 0 /\ ~ (least <= least - 1)
    BY <1>2, <2>2, <2>3, SMTT(20)
  <2>5. Good(least - 1)
    <3> HIDE DEF Good
    <3> QED
      BY <2>1, <2>4
  <2>6. from[least][s[k]] = <<s[k]>> \o from[least - 1][h.next[s[k]]]
    BY <1>1, <1>2, <2>2, <2>4, Zenon
  <2>7. CASE k = Len(s)
    <3>1. from[least - 1][Null] = << >>
      BY <1>1, <2>4, Zenon DEF Pointers
    <3>2. from[least][s[k]] = <<s[k]>> \o << >>
      BY <1>4, <2>6, <2>7, <3>1
    <3> QED
      BY <1>2, <2>3, <2>7, <3>2, EndOfSequence, Zenon
  <2>8. CASE k # Len(s)
    <3>1. k + 1 \in 1 .. Len(s) /\ Len(s) - (k + 1) < least - 1 /\ k < Len(s)
      <4>1. k + 1 \in 1 .. Len(s) /\ k < Len(s)
        BY <1>2, <2>8, SMTT(20)
      <4>2. k \in Nat /\ least \in Nat
        BY <2>2
      <4> QED
        BY <1>2, <2>3, <4>1, <4>2
    <3>2. from[least - 1][s[k + 1]] = SubSeq(s, k + 1, Len(s))
      BY <2>5, <3>1
    <3>3. from[least][s[k]] = <<s[k]>> \o SubSeq(s, k + 1, Len(s))
      BY <1>4, <2>6, <2>8, <3>2, Zenon
    <3> QED
      BY <1>2, <2>3, <3>1, <3>3, EndOfSequence, Zenon
  <2> QED
    BY <2>7, <2>8
<1>6. \A k \in 1 .. Len(s) : Walk(h, s[k]) = SubSeq(s, k, Len(s))
  <2> SUFFICES ASSUME NEW k \in 1 .. Len(s)
               PROVE  Walk(h, s[k]) = SubSeq(s, k, Len(s))
    OBVIOUS
  <2>1. m + 1 \in 0 .. m + 1 /\ Len(s) - k < m + 1
    BY <1>2, <1>3
  <2>2. Good(m + 1)
    BY <1>5, <2>1
  <2> QED
    BY <1>1, <1>2, <2>1, <2>2
<1>7. Items(h, a) = s
  <2>1. CASE s = << >>
    <3>1. h.child[a] = Null
      BY <2>1 DEF Linked, FirstLinked
    <3>2. Walk(h, Null) = from[m + 1][Null]
      BY <1>1 DEF Pointers
    <3>3. m + 1 \in 0 .. m + 1 /\ Null \in Pointers(m)
      BY DEF Pointers
    <3>4. from[m + 1][Null] = << >>
      BY <1>1, <3>3, Zenon
    <3> QED
      BY <2>1, <3>1, <3>2, <3>4 DEF Items
  <2>2. CASE s # << >>
    <3>1. h.child[a] = s[1] /\ 1 \in 1 .. Len(s)
      BY <1>2, <2>2 DEF Linked, FirstLinked
    <3>2. Walk(h, s[1]) = SubSeq(s, 1, Len(s))
      BY <1>6, <3>1
    <3>3. SubSeq(s, 1, Len(s)) = s
      BY <1>2, <3>1, EndOfSequence
    <3> QED
      BY <3>1, <3>2, <3>3 DEF Items
  <2> QED
    BY <2>1, <2>2
<1> QED
  BY <1>6, <1>7

(* A cell that is in no list.                                              *)
Unlisted(m, L, c) == \A a \in 0 .. m : \A i \in 1 .. Len(L[a]) : L[a][i] # c

(***************************************************************************)
(* Appending.                                                              *)
(***************************************************************************)

Appended(L, a, item) == [L EXCEPT ![a] = Append(@, item)]

(* The lists after an append.                                              *)
LEMMA AppendedLists ==
    ASSUME NEW m \in Nat, NEW L \in ListsOf(m), NEW a \in 0 .. m, NEW item \in 1 .. m
    PROVE  LET M == Appended(L, a, item)
           IN  /\ M \in ListsOf(m)
               /\ \A b \in 0 .. m : b # a => M[b] = L[b]
               /\ Len(M[a]) = Len(L[a]) + 1
               /\ \A i \in 1 .. Len(L[a]) : M[a][i] = L[a][i]
               /\ M[a][Len(L[a]) + 1] = item
<1>1. L[a] \in Seq(1 .. m) /\ Len(L[a]) \in Nat
  BY ListElements
<1> DEFINE s == Append(L[a], item)
<1>2. /\ s \in Seq(1 .. m) /\ Len(s) = Len(L[a]) + 1
      /\ \A i \in 1 .. Len(L[a]) : s[i] = L[a][i]
      /\ s[Len(L[a]) + 1] = item
  BY <1>1
<1>3. Appended(L, a, item) = [L EXCEPT ![a] = s]
  BY DEF Appended
<1> HIDE DEF s
<1> QED
  BY <1>2, <1>3 DEF ListsOf

(* Appending a cell that is in no list leaves a heap of linked lists.      *)
LEMMA AppendLinked ==
    ASSUME NEW m \in Nat, NEW h \in Heaps(m), NEW L \in ListsOf(m), Linked(h, m, L),
           NEW a \in 0 .. m, NEW item \in 1 .. m,
           Unlisted(m, L, item), h.next[item] = Null
    PROVE  LET g == add_item_to_array(h, a, item)
               M == Appended(L, a, item)
           IN  /\ g \in Heaps(m)
               /\ g.tag = h.tag
               /\ Linked(g, m, M)
               /\ \A c \in 1 .. m : Unlisted(m, L, c) => g.next[c] = h.next[c]
<1> DEFINE g == add_item_to_array(h, a, item)
           M == Appended(L, a, item)
           s == L[a]
           n == Len(L[a])
           first == s[1]
           last == s[n]
<1>1. /\ M \in ListsOf(m)
      /\ \A b \in 0 .. m : b # a => M[b] = L[b]
      /\ Len(M[a]) = n + 1
      /\ \A i \in 1 .. n : M[a][i] = s[i]
      /\ M[a][n + 1] = item
  BY AppendedLists
<1>2. /\ s \in Seq(1 .. m) /\ n \in Nat
      /\ \A i \in 1 .. n : s[i] \in 1 .. m
      /\ s = << >> <=> n = 0
  BY ListElements
<1>3. \A b \in 0 .. m : /\ L[b] \in Seq(1 .. m) /\ Len(L[b]) \in Nat
                        /\ L[b] = << >> <=> Len(L[b]) = 0
                        /\ \A i \in 1 .. Len(L[b]) : L[b][i] \in 1 .. m
  BY ListElements
<1>4. /\ h.child \in [0 .. m -> Pointers(m)] /\ h.next \in [0 .. m -> Pointers(m)]
      /\ h.prev \in [0 .. m -> Pointers(m)]
      /\ h = [tag |-> h.tag, child |-> h.child, next |-> h.next, prev |-> h.prev]
      /\ h.tag \in [1 .. m -> [name : Name, assignable : BOOLEAN]]
  BY DEF Heaps
<1>5. item \in Pointers(m) /\ Null \in Pointers(m) /\ item # Null /\ item \in 0 .. m
  BY NullAssumption DEF Pointers
<1>6. Disjoint(m, M)
  <2> SUFFICES ASSUME NEW b \in 0 .. m, NEW c \in 0 .. m,
                      NEW i \in 1 .. Len(M[b]), NEW j \in 1 .. Len(M[c]), M[b][i] = M[c][j]
               PROVE  b = c /\ i = j
    BY DEF Disjoint
  <2>1. \A d \in 0 .. m : \A k \in 1 .. Len(M[d]) :
            \/ d = a /\ k = n + 1 /\ M[d][k] = item
            \/ k \in 1 .. Len(L[d]) /\ M[d][k] = L[d][k] /\ M[d][k] # item
    <3> SUFFICES ASSUME NEW d \in 0 .. m, NEW k \in 1 .. Len(M[d])
                 PROVE  \/ d = a /\ k = n + 1 /\ M[d][k] = item
                        \/ k \in 1 .. Len(L[d]) /\ M[d][k] = L[d][k] /\ M[d][k] # item
      OBVIOUS
    <3>1. CASE d = a
      <4>1. CASE k = n + 1
        BY <1>1, <3>1, <4>1
      <4>2. CASE k # n + 1
        <5>1. k \in 1 .. n
          BY <1>1, <1>2, <3>1, <4>2, SMTT(20)
        <5> QED
          BY <1>1, <3>1, <5>1 DEF Unlisted
      <4> QED
        BY <4>1, <4>2
    <3>2. CASE d # a
      BY <1>1, <3>2 DEF Unlisted
    <3> QED
      BY <3>1, <3>2
  <2>2. CASE M[b][i] = item
    <3>1. b = a /\ i = n + 1 /\ c = a /\ j = n + 1
      BY <2>1, <2>2
    <3> QED
      BY <3>1
  <2>3. CASE M[b][i] # item
    <3>1. /\ i \in 1 .. Len(L[b]) /\ j \in 1 .. Len(L[c])
          /\ L[b][i] = L[c][j]
      BY <2>1, <2>3
    <3> QED
      BY <3>1, SMTT(20) DEF Linked, Disjoint
  <2> QED
    BY <2>2, <2>3
<1>7. CASE n = 0
  <2>1. h.child[a] = Null /\ s = << >>
    BY <1>2, <1>7 DEF Linked, FirstLinked
  <2>2. g = [h EXCEPT !.child[a] = item, !.prev[item] = item, !.next[item] = Null]
    BY <2>1 DEF add_item_to_array
  <2>3. /\ g.tag = h.tag
        /\ g.child = [h.child EXCEPT ![a] = item]
        /\ g.prev = [h.prev EXCEPT ![item] = item]
        /\ g.next = [h.next EXCEPT ![item] = Null]
        /\ g = [tag |-> g.tag, child |-> g.child, next |-> g.next, prev |-> g.prev]
    BY <1>4, <2>2
  <2> HIDE DEF g, M
  <2>4. g \in Heaps(m)
    <3>1. /\ g.child \in [0 .. m -> Pointers(m)] /\ g.next \in [0 .. m -> Pointers(m)]
          /\ g.prev \in [0 .. m -> Pointers(m)]
      BY <1>4, <1>5, <2>3
    <3> QED
      BY <1>4, <2>3, <3>1 DEF Heaps
  <2>5. FirstLinked(g, m, M)
    <3> SUFFICES ASSUME NEW b \in 0 .. m
                 PROVE  IF M[b] = << >> THEN g.child[b] = Null
                        ELSE /\ g.child[b] = M[b][1]
                             /\ g.prev[M[b][1]] \in {Null, M[b][Len(M[b])]}
                             /\ g.next[M[b][Len(M[b])]] = Null
      BY DEF FirstLinked
    <3>1. CASE b = a
      <4>1. Len(M[b]) = 1 /\ M[b][1] = item /\ M[b] # << >>
        BY <1>1, <1>7, <3>1
      <4>2. g.child[b] = item /\ g.prev[item] = item /\ g.next[item] = Null
        BY <1>4, <1>5, <2>3, <3>1
      <4> QED
        BY <4>1, <4>2
    <3>2. CASE b # a
      <4>1. M[b] = L[b] /\ g.child[b] = h.child[b]
        BY <1>1, <1>4, <2>3, <3>2
      <4>2. CASE L[b] = << >>
        BY <4>1, <4>2 DEF Linked, FirstLinked
      <4>3. CASE L[b] # << >>
        <5>1. 1 \in 1 .. Len(L[b]) /\ Len(L[b]) \in 1 .. Len(L[b])
          BY <1>3, <4>3
        <5>2. L[b][1] # item /\ L[b][Len(L[b])] # item
          BY <5>1 DEF Unlisted
        <5>3. /\ g.prev[L[b][1]] = h.prev[L[b][1]]
              /\ g.next[L[b][Len(L[b])]] = h.next[L[b][Len(L[b])]]
          BY <1>3, <1>4, <2>3, <5>1, <5>2
        <5> QED
          BY <4>1, <4>3, <5>3 DEF Linked, FirstLinked
      <4> QED
        BY <4>2, <4>3
    <3> QED
      BY <3>1, <3>2
  <2>6. NeighboursLinked(g, m, M)
    <3> SUFFICES ASSUME NEW b \in 0 .. m, NEW k \in 1 .. Len(M[b]) - 1
                 PROVE  /\ g.next[M[b][k]] = M[b][k + 1]
                        /\ g.prev[M[b][k + 1]] = M[b][k]
      BY DEF NeighboursLinked
    <3>1. b # a
      <4> SUFFICES ASSUME b = a
                   PROVE  FALSE
        OBVIOUS
      <4>1. Len(M[b]) = 1
        BY <1>1, <1>7
      <4> QED
        BY <4>1
    <3>2. M[b] = L[b] /\ k \in 1 .. Len(L[b]) /\ k + 1 \in 1 .. Len(L[b])
      <4>1. M[b] = L[b] /\ Len(L[b]) \in Nat
        BY <1>1, <1>3, <3>1
      <4>2. k \in 1 .. Len(L[b]) - 1
        BY <4>1
      <4> QED
        BY <4>1, <4>2
    <3>3. L[b][k] # item /\ L[b][k + 1] # item
      BY <3>2 DEF Unlisted
    <3>4. g.next[L[b][k]] = h.next[L[b][k]] /\ g.prev[L[b][k + 1]] = h.prev[L[b][k + 1]]
      BY <1>3, <1>4, <2>3, <3>2, <3>3
    <3> QED
      BY <3>2, <3>4 DEF Linked, NeighboursLinked
  <2>7. \A c \in 1 .. m : g.next[c] = h.next[c]
    BY <1>4, <2>3
  <2> QED
    BY <1>6, <2>3, <2>4, <2>5, <2>6, <2>7 DEF Linked, g, M
<1>8. CASE n # 0
  <2>1. /\ h.child[a] = first /\ s # << >>
        /\ h.prev[first] \in {Null, last} /\ h.next[last] = Null
        /\ 1 \in 1 .. n /\ n \in 1 .. n
    BY <1>2, <1>8 DEF Linked, FirstLinked
  <2>2. /\ first \in 1 .. m /\ last \in 1 .. m /\ first # Null /\ last # Null
        /\ first # item /\ last # item
    BY <1>2, <2>1, NullAssumption DEF Unlisted
  <2>3. (IF h.prev[first] # Null THEN h.prev[first] ELSE Last(Walk(h, first))) = last
    <3>1. Walk(h, first) = s
      <4>1. Walk(h, first) = SubSeq(s, 1, n)
        BY <2>1, WalkList
      <4> QED
        BY <1>2, <2>1, <4>1, EndOfSequence
    <3>2. Last(s) = last
      BY DEF Last
    <3> QED
      BY <2>1, <3>1, <3>2
  <2>4. g = [suffix_object(h, last, item) EXCEPT !.prev[first] = item]
    BY <2>1, <2>2, <2>3 DEF add_item_to_array
  <2>5. /\ g.tag = h.tag
        /\ g.child = h.child
        /\ g.prev = [[h.prev EXCEPT ![item] = last] EXCEPT ![first] = item]
        /\ g.next = [h.next EXCEPT ![last] = item]
        /\ g = [tag |-> g.tag, child |-> g.child, next |-> g.next, prev |-> g.prev]
    BY <1>4, <2>4 DEF suffix_object
  <2> HIDE DEF g, M, first, last
  <2>6. g \in Heaps(m)
    <3>1. first \in Pointers(m) /\ last \in Pointers(m)
      BY <2>2 DEF Pointers
    <3>2. g.child \in [0 .. m -> Pointers(m)] /\ g.next \in [0 .. m -> Pointers(m)]
      <4>1. h.child \in [0 .. m -> Pointers(m)] /\ g.child = h.child
        BY <1>4, <2>5
      <4>2. h.next \in [0 .. m -> Pointers(m)] /\ item \in Pointers(m)
        BY <1>4, <1>5
      <4>3. [h.next EXCEPT ![last] = item] \in [0 .. m -> Pointers(m)]
        BY <4>2
      <4>4. g.next \in [0 .. m -> Pointers(m)]
        BY <2>5, <4>3
      <4> QED
        BY <4>1, <4>4
    <3>3. [h.prev EXCEPT ![item] = last] \in [0 .. m -> Pointers(m)]
      BY <1>4, <3>1
    <3>4. g.prev \in [0 .. m -> Pointers(m)]
      BY <1>5, <2>5, <3>3
    <3> QED
      BY <1>4, <2>5, <3>2, <3>4 DEF Heaps
  <2>7. \A c \in 1 .. m : /\ c # last => g.next[c] = h.next[c]
                          /\ c # first /\ c # item => g.prev[c] = h.prev[c]
    BY <1>4, <2>5
  <2>8. g.next[last] = item /\ g.prev[first] = item /\ g.prev[item] = last
    BY <1>4, <1>5, <2>2, <2>5
  <2>9. \A b \in 0 .. m : \A k \in 1 .. Len(L[b]) :
            /\ L[b][k] = last => b = a /\ k = n
            /\ L[b][k] = first => b = a /\ k = 1
            /\ L[b][k] # item
    BY <2>1, SMTT(20) DEF Linked, Disjoint, Unlisted, first, last
  <2>10. FirstLinked(g, m, M)
    <3> SUFFICES ASSUME NEW b \in 0 .. m
                 PROVE  IF M[b] = << >> THEN g.child[b] = Null
                        ELSE /\ g.child[b] = M[b][1]
                             /\ g.prev[M[b][1]] \in {Null, M[b][Len(M[b])]}
                             /\ g.next[M[b][Len(M[b])]] = Null
      BY DEF FirstLinked
    <3>1. CASE b = a
      <4>1. Len(M[b]) = n + 1 /\ M[b][1] = first /\ M[b][n + 1] = item /\ M[b] # << >>
        BY <1>1, <1>2, <2>1, <3>1 DEF first
      <4>2. g.child[b] = first /\ g.prev[first] = item /\ g.next[item] = Null
        BY <2>1, <2>2, <2>5, <2>7, <2>8, <3>1
      <4> QED
        BY <4>1, <4>2
    <3>2. CASE b # a
      <4>1. M[b] = L[b] /\ g.child[b] = h.child[b]
        BY <1>1, <2>5, <3>2
      <4>2. CASE L[b] = << >>
        BY <4>1, <4>2 DEF Linked, FirstLinked
      <4>3. CASE L[b] # << >>
        <5>1. 1 \in 1 .. Len(L[b]) /\ Len(L[b]) \in 1 .. Len(L[b])
          BY <1>3, <4>3
        <5>2. /\ g.prev[L[b][1]] = h.prev[L[b][1]]
              /\ g.next[L[b][Len(L[b])]] = h.next[L[b][Len(L[b])]]
          BY <1>3, <2>7, <2>9, <3>2, <5>1
        <5> QED
          BY <4>1, <4>3, <5>2 DEF Linked, FirstLinked
      <4> QED
        BY <4>2, <4>3
    <3> QED
      BY <3>1, <3>2
  <2>11. NeighboursLinked(g, m, M)
    <3> SUFFICES ASSUME NEW b \in 0 .. m, NEW k \in 1 .. Len(M[b]) - 1
                 PROVE  /\ g.next[M[b][k]] = M[b][k + 1]
                        /\ g.prev[M[b][k + 1]] = M[b][k]
      BY DEF NeighboursLinked
    <3>1. CASE b = a /\ k = n
      <4>1. M[b][k] = last /\ M[b][k + 1] = item
        BY <1>1, <2>1, <3>1 DEF last
      <4> QED
        BY <2>8, <4>1
    <3>2. CASE ~ (b = a /\ k = n)
      <4>1. /\ k \in 1 .. Len(L[b]) - 1 /\ k \in 1 .. Len(L[b]) /\ k + 1 \in 1 .. Len(L[b])
            /\ M[b][k] = L[b][k] /\ M[b][k + 1] = L[b][k + 1]
        <5>1. CASE b = a
          <6>1. k \in 1 .. n /\ k # n
            BY <1>1, <1>2, <3>2, <5>1
          <6>2. k \in 1 .. n - 1 /\ k + 1 \in 1 .. n
            BY <1>2, <6>1
          <6> QED
            BY <1>1, <5>1, <6>1, <6>2
        <5>2. CASE b # a
          <6>1. M[b] = L[b] /\ Len(L[b]) \in Nat
            BY <1>1, <1>3, <5>2
          <6>2. k \in 1 .. Len(L[b]) - 1
            BY <6>1
          <6>3. k \in 1 .. Len(L[b]) /\ k + 1 \in 1 .. Len(L[b])
            BY <6>1, <6>2
          <6> QED
            BY <6>1, <6>2, <6>3
        <5> QED
          BY <5>1, <5>2
      <4>2. L[b][k] # last
        <5>1. b # a \/ k # n
          BY <3>2
        <5> QED
          BY <2>9, <4>1, <5>1
      <4>3. L[b][k + 1] # first /\ L[b][k + 1] # item
        <5>1. k + 1 # 1
          BY <4>1
        <5> QED
          BY <2>9, <4>1, <5>1
      <4>4. g.next[L[b][k]] = h.next[L[b][k]] /\ g.prev[L[b][k + 1]] = h.prev[L[b][k + 1]]
        BY <1>3, <2>7, <4>1, <4>2, <4>3
      <4> QED
        BY <4>1, <4>4 DEF Linked, NeighboursLinked
    <3> QED
      BY <3>1, <3>2
  <2>12. \A c \in 1 .. m : Unlisted(m, L, c) => g.next[c] = h.next[c]
    BY <2>1, <2>7 DEF Unlisted, last
  <2> QED
    BY <1>6, <2>5, <2>6, <2>10, <2>11, <2>12 DEF Linked, g, M
<1> QED
  BY <1>7, <1>8 DEF g, M

(***************************************************************************)
(* Detaching.                                                              *)
(***************************************************************************)

(* A sequence without its element k.                                       *)
Without(s, k) == [i \in 1 .. Len(s) - 1 |-> IF i < k THEN s[i] ELSE s[i + 1]]

Detached(L, a, k) == [L EXCEPT ![a] = Without(@, k)]

(* The lists after a detachment.                                           *)
LEMMA DetachedLists ==
    ASSUME NEW m \in Nat, NEW L \in ListsOf(m), NEW a \in 0 .. m, NEW k \in 1 .. Len(L[a])
    PROVE  LET M == Detached(L, a, k)
           IN  /\ M \in ListsOf(m)
               /\ \A b \in 0 .. m : b # a => M[b] = L[b]
               /\ Len(M[a]) = Len(L[a]) - 1
               /\ \A i \in 1 .. Len(L[a]) - 1 :
                      M[a][i] = IF i < k THEN L[a][i] ELSE L[a][i + 1]
<1>1. /\ L[a] \in Seq(1 .. m) /\ Len(L[a]) \in Nat
      /\ \A i \in 1 .. Len(L[a]) : L[a][i] \in 1 .. m
  BY ListElements
<1> DEFINE n == Len(L[a]) - 1
           s == Without(L[a], k)
<1>2. n \in Nat
  BY <1>1
<1>3. s = [i \in 1 .. n |-> IF i < k THEN L[a][i] ELSE L[a][i + 1]]
  BY DEF Without
<1>4. \A i \in 1 .. n : (IF i < k THEN L[a][i] ELSE L[a][i + 1]) \in 1 .. m
  <2> SUFFICES ASSUME NEW i \in 1 .. n
               PROVE  L[a][i] \in 1 .. m /\ L[a][i + 1] \in 1 .. m
    OBVIOUS
  <2>1. i \in 1 .. Len(L[a]) /\ i + 1 \in 1 .. Len(L[a])
    BY <1>1
  <2> QED
    BY <1>1, <2>1
<1> HIDE DEF n, s
<1>5. s \in Seq(1 .. m) /\ Len(s) = n
  BY <1>2, <1>3, <1>4
<1>6. Detached(L, a, k) = [L EXCEPT ![a] = s]
  BY DEF Detached, s
<1> QED
  BY <1>3, <1>5, <1>6 DEF ListsOf, n

(* After detaching the k-th cell of a list the lists are linked, if this   *)
(* is not a last cell to which the prev of the first one points.           *)
LEMMA DetachLinked ==
    ASSUME NEW m \in Nat, NEW h \in Heaps(m), NEW L \in ListsOf(m), Linked(h, m, L),
           NEW a \in 0 .. m, NEW k \in 1 .. Len(L[a]),
           k = 1 \/ h.prev[L[a][1]] = Null
    PROVE  LET item == L[a][k]
               g == cJSON_DetachItemViaPointer(h, a, item)
               M == Detached(L, a, k)
           IN  /\ g \in Heaps(m)
               /\ g.tag = h.tag
               /\ Linked(g, m, M)
               /\ g.next[item] = Null
               /\ Unlisted(m, M, item)
               /\ \A c \in 1 .. m : Unlisted(m, L, c) =>
                      Unlisted(m, M, c) /\ g.next[c] = h.next[c]
<1> DEFINE s == L[a]
           n == Len(L[a])
           item == s[k]
           before == h.prev[item]
           after == h.next[item]
           g == cJSON_DetachItemViaPointer(h, a, item)
           M == Detached(L, a, k)
<1>1. /\ M \in ListsOf(m)
      /\ \A b \in 0 .. m : b # a => M[b] = L[b]
      /\ Len(M[a]) = n - 1
      /\ \A i \in 1 .. n - 1 : M[a][i] = IF i < k THEN s[i] ELSE s[i + 1]
  BY DetachedLists
<1>2. /\ s \in Seq(1 .. m) /\ n \in Nat /\ k \in Nat
      /\ \A i \in 1 .. n : s[i] \in 1 .. m /\ s[i] # Null
      /\ s # << >>
      /\ 1 \in 1 .. n /\ n \in 1 .. n
  BY ListElements, NullAssumption
<1>3. \A b \in 0 .. m : /\ L[b] \in Seq(1 .. m) /\ Len(L[b]) \in Nat
                        /\ L[b] = << >> <=> Len(L[b]) = 0
                        /\ \A i \in 1 .. Len(L[b]) : L[b][i] \in 1 .. m
  BY ListElements
<1>4. /\ h.child \in [0 .. m -> Pointers(m)] /\ h.next \in [0 .. m -> Pointers(m)]
      /\ h.prev \in [0 .. m -> Pointers(m)]
      /\ h = [tag |-> h.tag, child |-> h.child, next |-> h.next, prev |-> h.prev]
      /\ h.tag \in [1 .. m -> [name : Name, assignable : BOOLEAN]]
  BY DEF Heaps
<1>5. /\ h.child[a] = s[1] /\ h.prev[s[1]] \in {Null, s[n]} /\ h.next[s[n]] = Null
  BY <1>2 DEF Linked, FirstLinked
<1>6. \A i, j \in 1 .. n : s[i] = s[j] => i = j
  BY DEF Linked, Disjoint
<1>7. \A i \in 1 .. n - 1 : h.next[s[i]] = s[i + 1] /\ h.prev[s[i + 1]] = s[i]
  BY DEF Linked, NeighboursLinked
<1>8. /\ k = n => after = Null
      /\ k # n => after = s[k + 1] /\ k + 1 \in 1 .. n /\ after # Null
      /\ k = 1 => before \in {Null, s[n]}
      /\ k # 1 => before = s[k - 1] /\ k - 1 \in 1 .. n
  <2>1. k = n => after = Null
    BY <1>5
  <2>2. k # n => after = s[k + 1] /\ k + 1 \in 1 .. n /\ after # Null
    <3>1. k # n => k \in 1 .. n - 1 /\ k + 1 \in 1 .. n
      BY <1>2
    <3> QED
      BY <1>2, <1>7, <3>1
  <2>3. k = 1 => before \in {Null, s[n]}
    BY <1>5
  <2>4. k # 1 => before = s[k - 1] /\ k - 1 \in 1 .. n
    <3>1. k # 1 => k - 1 \in 1 .. n - 1 /\ k - 1 + 1 = k /\ k - 1 \in 1 .. n
      BY <1>2
    <3> QED
      BY <1>7, <3>1
  <2> QED
    BY <2>1, <2>2, <2>3, <2>4
<1>9. item = h.child[a] <=> k = 1
  BY <1>2, <1>5, <1>6
<1>10. /\ item \in 0 .. m /\ item \in 1 .. m /\ before \in Pointers(m) /\ after \in Pointers(m)
       /\ Null \in Pointers(m)
       /\ k # 1 => before \in 0 .. m /\ before \in 1 .. m
       /\ k # n => after \in 0 .. m /\ after \in 1 .. m
  BY <1>2, <1>4, <1>8, SMTT(20) DEF Pointers
<1> DEFINE next1 == IF k = 1 THEN h.next ELSE [h.next EXCEPT ![before] = after]
           prev1 == IF k = n THEN h.prev ELSE [h.prev EXCEPT ![after] = before]
<1>11. /\ g.tag = h.tag
       /\ g.child = IF k = 1 THEN [h.child EXCEPT ![a] = after] ELSE h.child
       /\ g.next = [next1 EXCEPT ![item] = Null]
       /\ g.prev = [prev1 EXCEPT ![item] = Null]
       /\ g = [tag |-> g.tag, child |-> g.child, next |-> g.next, prev |-> g.prev]
  <2> DEFINE h1 == IF item = h.child[a] THEN [h EXCEPT !.child[a] = after]
                   ELSE [h EXCEPT !.next[before] = after]
             h2 == IF after = Null THEN h1 ELSE [h1 EXCEPT !.prev[after] = before]
  <2>1. g = [h2 EXCEPT !.prev[item] = Null, !.next[item] = Null]
    BY DEF cJSON_DetachItemViaPointer
  <2>2. /\ h1 = [tag |-> h1.tag, child |-> h1.child, next |-> h1.next, prev |-> h1.prev]
        /\ h1.tag = h.tag /\ h1.prev = h.prev
        /\ h1.child = IF k = 1 THEN [h.child EXCEPT ![a] = after] ELSE h.child
        /\ h1.next = next1
    <3>1. CASE k = 1
      BY <1>4, <1>9, <3>1
    <3>2. CASE k # 1
      BY <1>4, <1>9, <3>2
    <3> QED
      BY <3>1, <3>2
  <2> HIDE DEF h1
  <2>3. /\ h2 = [tag |-> h2.tag, child |-> h2.child, next |-> h2.next, prev |-> h2.prev]
        /\ h2.tag = h1.tag /\ h2.child = h1.child /\ h2.next = h1.next
        /\ h2.prev = IF after = Null THEN h1.prev ELSE [h1.prev EXCEPT ![after] = before]
    <3>1. CASE after = Null
      BY <2>2, <3>1
    <3>2. CASE after # Null
      BY <2>2, <3>2
    <3> QED
      BY <3>1, <3>2
  <2> HIDE DEF h2
  <2>4. h2.prev = prev1
    BY <1>8, <2>2, <2>3
  <2> HIDE DEF next1, prev1
  <2>5. /\ g.tag = h2.tag /\ g.child = h2.child
        /\ g.next = [h2.next EXCEPT ![item] = Null]
        /\ g.prev = [h2.prev EXCEPT ![item] = Null]
        /\ g = [tag |-> g.tag, child |-> g.child, next |-> g.next, prev |-> g.prev]
    BY <2>1, <2>3
  <2> QED
    BY <2>2, <2>3, <2>4, <2>5
<1>12. next1 \in [0 .. m -> Pointers(m)] /\ prev1 \in [0 .. m -> Pointers(m)]
  BY <1>4, <1>10
<1> HIDE DEF g, M
<1>13. g \in Heaps(m)
  <2>1. g.child \in [0 .. m -> Pointers(m)]
    BY <1>4, <1>10, <1>11
  <2>2. g.next \in [0 .. m -> Pointers(m)] /\ g.prev \in [0 .. m -> Pointers(m)]
    <3> HIDE DEF next1, prev1
    <3> QED
      BY <1>10, <1>11, <1>12
  <2> QED
    BY <1>4, <1>11, <2>1, <2>2 DEF Heaps
<1>14. \A c \in 0 .. m : g.next[c] = IF c = item THEN Null
                                     ELSE IF k # 1 /\ c = before THEN after ELSE h.next[c]
  <2>1. \A c \in 0 .. m : g.next[c] = IF c = item THEN Null ELSE next1[c]
    <3> HIDE DEF next1
    <3> QED
      BY <1>11, <1>12
  <2>2. \A c \in 0 .. m : next1[c] = IF k # 1 /\ c = before THEN after ELSE h.next[c]
    BY <1>4
  <2> HIDE DEF next1
  <2> QED
    BY <2>1, <2>2
<1>15. \A c \in 0 .. m : g.prev[c] = IF c = item THEN Null
                                     ELSE IF k # n /\ c = after THEN before ELSE h.prev[c]
  <2>1. \A c \in 0 .. m : g.prev[c] = IF c = item THEN Null ELSE prev1[c]
    <3> HIDE DEF prev1
    <3> QED
      BY <1>11, <1>12
  <2>2. \A c \in 0 .. m : prev1[c] = IF k # n /\ c = after THEN before ELSE h.prev[c]
    BY <1>4
  <2> HIDE DEF prev1
  <2> QED
    BY <2>1, <2>2
<1>16. \A c \in 0 .. m : g.child[c] = IF k = 1 /\ c = a THEN after ELSE h.child[c]
  BY <1>4, <1>11
<1> HIDE DEF next1, prev1
(* Where the cells of the new lists were in the old ones.                  *)
<1> DEFINE Old(b, i) == IF b # a \/ i < k THEN i ELSE i + 1
<1>17. \A b \in 0 .. m : \A i \in 1 .. Len(M[b]) :
           /\ M[b][i] = L[b][Old(b, i)]
           /\ Old(b, i) \in 1 .. Len(L[b])
           /\ b = a => Old(b, i) # k
  <2> SUFFICES ASSUME NEW b \in 0 .. m, NEW i \in 1 .. Len(M[b])
               PROVE  /\ M[b][i] = L[b][Old(b, i)]
                      /\ Old(b, i) \in 1 .. Len(L[b])
                      /\ b = a => Old(b, i) # k
    OBVIOUS
  <2>1. CASE b # a
    BY <1>1, <2>1
  <2>2. CASE b = a
    <3>1. i \in 1 .. n - 1
      BY <1>1, <2>2
    <3>2. i \in 1 .. n /\ i + 1 \in 1 .. n
      BY <1>2, <3>1
    <3> QED
      BY <1>1, <1>2, <2>2, <3>1, <3>2, SMTT(20)
  <2> QED
    BY <2>1, <2>2
<1>18. Disjoint(m, M)
  <2> SUFFICES ASSUME NEW b \in 0 .. m, NEW c \in 0 .. m,
                      NEW i \in 1 .. Len(M[b]), NEW j \in 1 .. Len(M[c]), M[b][i] = M[c][j]
               PROVE  b = c /\ i = j
    BY DEF Disjoint
  <2>1. L[b][Old(b, i)] = L[c][Old(c, j)]
    BY <1>17
  <2>2. b = c /\ Old(b, i) = Old(c, j)
    <3> HIDE DEF Old
    <3>1. Old(b, i) \in 1 .. Len(L[b]) /\ Old(c, j) \in 1 .. Len(L[c])
      BY <1>17
    <3> QED
      BY <2>1, <3>1, SMTT(20) DEF Linked, Disjoint
  <2> QED
    BY <1>2, <2>2
<1>19. Unlisted(m, M, item)
  <2> HIDE DEF Old
  <2> SUFFICES ASSUME NEW b \in 0 .. m, NEW i \in 1 .. Len(M[b]), M[b][i] = item
               PROVE  FALSE
    BY DEF Unlisted
  <2>1. L[b][Old(b, i)] = L[a][k] /\ Old(b, i) \in 1 .. Len(L[b])
    BY <1>17
  <2>2. b = a /\ Old(b, i) = k
    BY <2>1 DEF Linked, Disjoint
  <2> QED
    BY <1>17, <2>2
<1>20. \A c \in 1 .. m : Unlisted(m, L, c) => Unlisted(m, M, c)
  <2> HIDE DEF Old
  <2> SUFFICES ASSUME NEW c \in 1 .. m, Unlisted(m, L, c),
                      NEW b \in 0 .. m, NEW i \in 1 .. Len(M[b])
               PROVE  M[b][i] # c
    BY DEF Unlisted
  <2>1. M[b][i] = L[b][Old(b, i)] /\ Old(b, i) \in 1 .. Len(L[b])
    BY <1>17
  <2> QED
    BY <2>1 DEF Unlisted
<1> HIDE DEF Old
<1>21. \A c \in 1 .. m : Unlisted(m, L, c) => g.next[c] = h.next[c]
  <2> SUFFICES ASSUME NEW c \in 1 .. m, Unlisted(m, L, c)
               PROVE  g.next[c] = h.next[c]
    OBVIOUS
  <2>1. c # item /\ (k # 1 => c # before) /\ c \in 0 .. m
    BY <1>8 DEF Unlisted
  <2> QED
    BY <1>14, <2>1
<1>22. \A b \in 0 .. m : \A i \in 1 .. Len(L[b]) :
           /\ L[b][i] \in 0 .. m
           /\ L[b][i] = item => b = a /\ i = k
           /\ k # 1 /\ L[b][i] = before => b = a /\ i = k - 1
           /\ k # n /\ L[b][i] = after => b = a /\ i = k + 1
  <2> SUFFICES ASSUME NEW b \in 0 .. m, NEW i \in 1 .. Len(L[b])
               PROVE  /\ L[b][i] \in 0 .. m
                      /\ L[b][i] = item => b = a /\ i = k
                      /\ k # 1 /\ L[b][i] = before => b = a /\ i = k - 1
                      /\ k # n /\ L[b][i] = after => b = a /\ i = k + 1
    OBVIOUS
  <2>1. \A j \in 1 .. n : L[b][i] = L[a][j] => b = a /\ i = j
    BY DEF Linked, Disjoint
  <2>2. L[b][i] \in 0 .. m
    <3>1. L[b][i] \in 1 .. m
      BY <1>3
    <3> QED
      BY <3>1
  <2> QED
    BY <1>8, <2>1, <2>2
<1>23. FirstLinked(g, m, M)
  <2> SUFFICES ASSUME NEW b \in 0 .. m
               PROVE  IF M[b] = << >> THEN g.child[b] = Null
                      ELSE /\ g.child[b] = M[b][1]
                           /\ g.prev[M[b][1]] \in {Null, M[b][Len(M[b])]}
                           /\ g.next[M[b][Len(M[b])]] = Null
    BY DEF FirstLinked
  <2>1. CASE b # a
    <3>1. M[b] = L[b] /\ g.child[b] = h.child[b]
      BY <1>1, <1>16, <2>1
    <3>2. CASE L[b] = << >>
      BY <3>1, <3>2 DEF Linked, FirstLinked
    <3>3. CASE L[b] # << >>
      <4>1. 1 \in 1 .. Len(L[b]) /\ Len(L[b]) \in 1 .. Len(L[b])
        BY <1>3, <3>3, SMTT(20)
      <4>2. /\ L[b][1] # item /\ (k # n => L[b][1] # after) /\ L[b][1] \in 0 .. m
            /\ L[b][Len(L[b])] # item /\ (k # 1 => L[b][Len(L[b])] # before)
            /\ L[b][Len(L[b])] \in 0 .. m
        BY <1>22, <2>1, <4>1
      <4>3. /\ g.prev[L[b][1]] = h.prev[L[b][1]]
            /\ g.next[L[b][Len(L[b])]] = h.next[L[b][Len(L[b])]]
        BY <1>14, <1>15, <4>2
      <4> QED
        BY <3>1, <3>3, <4>3 DEF Linked, FirstLinked
    <3> QED
      BY <3>2, <3>3
  <2>2. CASE b = a /\ n = 1
    <3>1. M[b] = << >>
      <4>1. M[a] \in Seq(1 .. m) /\ Len(M[a]) = 0
        BY <1>1, <2>2, ListElements
      <4> QED
        BY <2>2, <4>1
    <3>2. k = 1 /\ k = n
      BY <2>2
    <3>3. g.child[b] = Null
      BY <1>8, <1>16, <2>2, <3>2
    <3> QED
      BY <3>1, <3>3
  <2>3. CASE b = a /\ n # 1
    <3>1. /\ n - 1 \in 1 .. n - 1 /\ 1 \in 1 .. n - 1 /\ Len(M[b]) = n - 1 /\ 2 \in 1 .. n
          /\ n - 1 \in 1 .. n
      <4>1. n \in Nat /\ n >= 2
        <5>1. n \in Nat /\ n >= 1 /\ n # 1
          BY <1>2, <2>3
        <5> HIDE DEF n
        <5> QED
          BY <5>1
      <4>2. Len(M[b]) = n - 1
        BY <1>1, <2>3
      <4> HIDE DEF n
      <4> QED
        BY <4>1, <4>2
    <3>2. /\ M[b] # << >>
          /\ M[b][1] = IF k = 1 THEN s[2] ELSE s[1]
          /\ M[b][n - 1] = IF k = n THEN s[n - 1] ELSE s[n]
      <4>1. M[b] # << >>
        <5>1. M[a] \in Seq(1 .. m) /\ Len(M[a]) # 0
          BY <1>1, <2>3, <3>1, ListElements
        <5> QED
          BY <2>3, <5>1
      <4>2. 1 < k <=> k # 1
        BY <1>2
      <4>3. n - 1 < k <=> k = n
        BY <1>2
      <4>4. n - 1 + 1 = n
        BY <1>2
      <4> QED
        BY <1>1, <2>3, <3>1, <4>1, <4>2, <4>3, <4>4, SMTT(20)
    <3>3. CASE k = 1
      <4>1. k # n /\ after = s[2] /\ M[b][1] = s[2] /\ M[b][n - 1] = s[n]
        BY <1>8, <2>3, <3>2, <3>3
      <4>2. g.child[b] = s[2]
        BY <1>16, <2>3, <3>3, <4>1
      <4>3. s[2] # item /\ s[2] \in 0 .. m
        BY <1>22, <3>1, <3>3
      <4>4. g.prev[s[2]] = before
        BY <1>15, <4>1, <4>3
      <4>5. s[n] # item /\ s[n] \in 0 .. m
        BY <1>2, <1>22, <4>1
      <4>6. g.next[s[n]] = Null
        BY <1>5, <1>14, <3>3, <4>5
      <4> QED
        BY <1>8, <3>1, <3>2, <3>3, <4>1, <4>2, <4>4, <4>6
    <3>4. CASE k # 1
      <4>1. M[b][1] = s[1] /\ g.child[b] = s[1]
        BY <1>5, <1>16, <2>3, <3>2, <3>4
      <4>2. s[1] # item /\ s[1] \in 0 .. m /\ (k # n => s[1] # after)
        BY <1>2, <1>22, <3>4
      <4>3. g.prev[s[1]] = h.prev[s[1]] /\ h.prev[s[1]] = Null
        BY <1>15, <3>4, <4>2
      <4>4. g.next[M[b][n - 1]] = Null
        <5>1. CASE k = n
          <6>1. before = s[n - 1] /\ M[b][n - 1] = before /\ after = Null /\ before \in 0 .. m
            BY <1>8, <1>10, <3>2, <3>4, <5>1
          <6>2. before # item
            <7>1. n - 1 # k /\ k \in 1 .. n
              BY <1>2, <5>1
            <7> QED
              BY <1>6, <3>1, <6>1, <7>1
          <6> QED
            BY <1>14, <3>4, <6>1, <6>2
        <5>2. CASE k # n
          <6>1. s[n] # item /\ s[n] # before /\ s[n] \in 0 .. m /\ M[b][n - 1] = s[n]
            <7>1. n # k - 1
              BY <1>2
            <7> QED
              BY <1>2, <1>22, <3>2, <3>4, <5>2, <7>1
          <6> QED
            BY <1>5, <1>14, <6>1
        <5> QED
          BY <5>1, <5>2
      <4> QED
        BY <3>1, <3>2, <4>1, <4>3, <4>4
    <3> QED
      BY <3>3, <3>4
  <2> QED
    BY <2>1, <2>2, <2>3
<1>24. n \in Nat /\ k \in Nat /\ k >= 1 /\ k <= n
  BY <1>2
<1>25. NeighboursLinked(g, m, M)
  <2> SUFFICES ASSUME NEW b \in 0 .. m, NEW i \in 1 .. Len(M[b]) - 1
               PROVE  /\ g.next[M[b][i]] = M[b][i + 1]
                      /\ g.prev[M[b][i + 1]] = M[b][i]
    BY DEF NeighboursLinked
  <2>1. CASE b # a
    <3>1. M[b] = L[b] /\ Len(L[b]) \in Nat
      BY <1>1, <1>3, <2>1
    <3>2. i \in 1 .. Len(L[b]) - 1
      BY <3>1
    <3>3. i \in 1 .. Len(L[b]) /\ i + 1 \in 1 .. Len(L[b])
      BY <3>1, <3>2
    <3>4. /\ L[b][i] # item /\ (k # 1 => L[b][i] # before) /\ L[b][i] \in 0 .. m
          /\ L[b][i + 1] # item /\ (k # n => L[b][i + 1] # after) /\ L[b][i + 1] \in 0 .. m
      BY <1>22, <2>1, <3>3
    <3>5. g.next[L[b][i]] = h.next[L[b][i]] /\ g.prev[L[b][i + 1]] = h.prev[L[b][i + 1]]
      BY <1>14, <1>15, <3>4
    <3> QED
      BY <3>1, <3>2, <3>5 DEF Linked, NeighboursLinked
  <2>2. CASE b = a
    <3>0. i \in Nat /\ i >= 1 /\ i + 2 <= n /\ i \in 1 .. n - 1 /\ i + 1 \in 1 .. n - 1
      <4>1. Len(M[b]) = n - 1 /\ n - 1 \in Int
        BY <1>1, <1>2, <2>2
      <4>2. i \in 1 .. n - 1 - 1
        BY <4>1
      <4> QED
        BY <1>2, <4>2, SMTT(20)
    <3>1. /\ i \in 1 .. n /\ i + 1 \in 1 .. n /\ i + 2 \in 1 .. n /\ i + 1 + 1 = i + 2
          /\ i + 1 \in 1 .. n - 1
      BY <1>2, <3>0
    <3>2. /\ M[b][i] = IF i < k THEN s[i] ELSE s[i + 1]
          /\ M[b][i + 1] = IF i + 1 < k THEN s[i + 1] ELSE s[i + 2]
      BY <1>1, <2>2, <3>0, <3>1
    <3>3. CASE i + 1 < k
      <4>1. i < k /\ i # k - 1 /\ i # k /\ i + 1 # k /\ i + 1 # k + 1
        <5> HIDE DEF n
        <5> QED
          BY <1>24, <3>0, <3>3
      <4>2. /\ s[i] # item /\ (k # 1 => s[i] # before) /\ s[i] \in 0 .. m
            /\ s[i + 1] # item /\ (k # n => s[i + 1] # after) /\ s[i + 1] \in 0 .. m
        BY <1>22, <3>1, <4>1
      <4>3. g.next[s[i]] = h.next[s[i]] /\ g.prev[s[i + 1]] = h.prev[s[i + 1]]
        BY <1>14, <1>15, <4>2
      <4> QED
        BY <1>7, <3>0, <3>2, <3>3, <4>1, <4>3
    <3>4. CASE i + 1 = k
      <4>1. i < k /\ i = k - 1 /\ k # 1 /\ k # n /\ i + 2 = k + 1 /\ ~ (i + 1 < k)
        <5> HIDE DEF n
        <5> QED
          BY <1>24, <3>0, <3>4
      <4>2. before = s[i] /\ after = s[i + 2] /\ M[b][i] = s[i] /\ M[b][i + 1] = s[i + 2]
        BY <1>8, <3>2, <4>1
      <4>3. i # k /\ i + 2 # k
        BY <1>2, <3>0, <3>4
      <4>4. s[i] # item /\ s[i + 2] # item /\ s[i] \in 0 .. m /\ s[i + 2] \in 0 .. m
        BY <1>22, <3>1, <4>3
      <4> QED
        BY <1>14, <1>15, <4>1, <4>2, <4>4
    <3>5. CASE i + 1 > k
      <4>1. /\ ~ (i < k) /\ ~ (i + 1 < k) /\ i + 1 # k /\ i + 1 # k - 1
            /\ i + 2 # k /\ i + 2 # k + 1
        BY <1>2, <3>0, <3>5
      <4>2. /\ s[i + 1] # item /\ (k # 1 => s[i + 1] # before) /\ s[i + 1] \in 0 .. m
            /\ s[i + 2] # item /\ (k # n => s[i + 2] # after) /\ s[i + 2] \in 0 .. m
        BY <1>22, <3>1, <4>1
      <4>3. g.next[s[i + 1]] = h.next[s[i + 1]] /\ g.prev[s[i + 2]] = h.prev[s[i + 2]]
        BY <1>14, <1>15, <4>2
      <4>4. h.next[s[i + 1]] = s[i + 2] /\ h.prev[s[i + 2]] = s[i + 1]
        BY <1>7, <3>1
      <4> QED
        BY <3>2, <4>1, <4>3, <4>4
    <3> QED
      BY <1>2, <3>0, <3>3, <3>4, <3>5
  <2> QED
    BY <2>1, <2>2
<1>26. g.next[item] = Null
  BY <1>10, <1>14
<1> QED
  BY <1>11, <1>13, <1>18, <1>19, <1>20, <1>21, <1>23, <1>25, <1>26 DEF Linked, g, M

(***************************************************************************)
(* Parsing.                                                                *)
(***************************************************************************)

(* s lists the numbers of S in ascending order.                            *)
Ascending(s, S) ==
    /\ \A i, j \in 1 .. Len(s) : i < j => s[i] < s[j]
    /\ \A x \in S : \E i \in 1 .. Len(s) : s[i] = x

(* Such a sequence exists.                                                 *)
LEMMA AscendingExists ==
    ASSUME NEW m \in Nat, NEW S, S \subseteq 1 .. m
    PROVE  \E s \in Seq(S) : Ascending(s, S)
<1> DEFINE Part(n) == S \cap 1 .. n
           Bad == {n \in 0 .. m : ~ \E s \in Seq(Part(n)) : Ascending(s, Part(n))}
           least == Min(Bad)
<1>1. SUFFICES Bad = {}
  <2>1. m \in 0 .. m /\ Part(m) = S
    <3>1. Part(m) = S
      BY Zenon
    <3> QED
      BY <3>1
  <2> HIDE DEF Part
  <2>2. \E s \in Seq(Part(m)) : Ascending(s, Part(m))
    BY <1>1, <2>1
  <2> QED
    BY <2>1, <2>2
<1>2. SUFFICES ASSUME Bad # {} PROVE FALSE
  OBVIOUS
<1>3. least \in Bad /\ \A n \in Bad : least <= n
  <2>1. Bad \subseteq Nat
    OBVIOUS
  <2> HIDE DEF Bad
  <2> QED
    BY <1>2, <2>1, MinIsLeast
<1>4. least \in 0 .. m /\ ~ \E s \in Seq(Part(least)) : Ascending(s, Part(least))
  BY <1>3
<1>5. least - 1 \in 0 .. m => least - 1 \notin Bad
  <2>1. ~ (least <= least - 1)
    BY <1>4
  <2> HIDE DEF least, Bad
  <2> QED
    BY <1>3, <2>1
<1> HIDE DEF least
<1>6. CASE least = 0
  <2>1. Part(0) = {}
    OBVIOUS
  <2>2. << >> \in Seq(Part(0)) /\ Ascending(<< >>, Part(0))
    BY <2>1 DEF Ascending
  <2> QED
    BY <1>4, <1>6, <2>2
<1>7. CASE least # 0
  <2>1. least - 1 \in 0 .. m /\ least \in 1 .. m /\ least - 1 \in Nat
    BY <1>4, <1>7
  <2>2. PICK s \in Seq(Part(least - 1)) : Ascending(s, Part(least - 1))
    BY <1>5, <2>1
  <2>3. /\ Len(s) \in Nat /\ DOMAIN s = 1 .. Len(s)
        /\ \A i \in 1 .. Len(s) : s[i] \in Part(least - 1)
    BY <2>2
  <2>4. CASE least \notin S
    <3>1. Part(least) = Part(least - 1)
      BY <2>1, <2>4
    <3> QED
      BY <1>4, <2>2, <3>1
  <2>5. CASE least \in S
    <3>1. Part(least) = Part(least - 1) \cup {least}
      BY <2>1, <2>5
    <3>2. \A x \in Part(least - 1) : x < least /\ x \in Nat
      BY <2>1
    <3> DEFINE P == Part(least - 1)
               Q == Part(least)
               r == Append(s, least)
    <3> HIDE DEF Part
    <3>3. s \in Seq(Q) /\ least \in Q
      BY <2>3, <3>1
    <3>4. /\ r \in Seq(Q) /\ Len(r) = Len(s) + 1
          /\ \A i \in 1 .. Len(s) : r[i] = s[i]
          /\ r[Len(s) + 1] = least
      BY <3>3
    <3> HIDE DEF P, Q, r
    <3>5. \A i, j \in 1 .. Len(r) : i < j => r[i] < r[j]
      <4> SUFFICES ASSUME NEW i \in 1 .. Len(r), NEW j \in 1 .. Len(r), i < j
                   PROVE  r[i] < r[j]
        OBVIOUS
      <4>1. i \in 1 .. Len(s) /\ r[i] = s[i] /\ s[i] \in Part(least - 1)
        BY <2>3, <3>4
      <4>2. CASE j = Len(s) + 1
        BY <3>2, <3>4, <4>1, <4>2
      <4>3. CASE j # Len(s) + 1
        <5>1. j \in 1 .. Len(s)
          BY <2>3, <3>4, <4>3
        <5> QED
          BY <2>2, <3>4, <4>1, <5>1 DEF Ascending
      <4> QED
        BY <4>2, <4>3
    <3>6. ASSUME NEW x \in Q
          PROVE  \E i \in 1 .. Len(r) : r[i] = x
      <4>1. CASE x = least
        <5>1. Len(s) + 1 \in 1 .. Len(r)
          BY <2>3, <3>4
        <5> QED
          BY <3>4, <4>1, <5>1
      <4>2. CASE x # least
        <5>1. x \in Part(least - 1)
          BY <3>1, <3>6, <4>2 DEF Q
        <5>2. PICK i \in 1 .. Len(s) : s[i] = x
          BY <2>2, <5>1 DEF Ascending
        <5>3. i \in 1 .. Len(r)
          BY <2>3, <3>4
        <5> QED
          BY <3>4, <5>2, <5>3
      <4> QED
        BY <4>1, <4>2
    <3> QED
      BY <1>4, <3>4, <3>5, <3>6 DEF Ascending, Q
  <2> QED
    BY <2>4, <2>5
<1> QED
  BY <1>6, <1>7

(* What FirstOf finds.                                                     *)
LEMMA FirstOfIs ==
    ASSUME NEW S, S \subseteq Nat
    PROVE  /\ S = {} => FirstOf(S) = Null
           /\ \A x \in S : (\A y \in S : x <= y) => FirstOf(S) = x
<1>1. CASE S = {}
  BY <1>1 DEF FirstOf
<1>2. CASE S # {}
  <2>1. FirstOf(S) = Min(S) /\ Min(S) \in S /\ \A y \in S : Min(S) <= y
    BY <1>2, MinIsLeast DEF FirstOf
  <2>2. ASSUME NEW x \in S, \A y \in S : x <= y
        PROVE  FirstOf(S) = x
    <3>1. x \in Nat /\ Min(S) \in Nat /\ x <= Min(S) /\ Min(S) <= x
      BY <2>1, <2>2
    <3> QED
      BY <2>1, <3>1
  <2> QED
    BY <1>2, <2>2
<1> QED
  BY <1>1, <1>2

(* What LastOf finds.                                                      *)
LEMMA LastOfIs ==
    ASSUME NEW n \in Nat, NEW S, S \subseteq 1 .. n
    PROVE  /\ S = {} => LastOf(S) = Null
           /\ \A x \in S : (\A y \in S : x >= y) => LastOf(S) = x
<1>1. CASE S = {}
  BY <1>1 DEF LastOf
<1>2. CASE S # {}
  <2>1. LastOf(S) = Max(S) /\ Max(S) \in S /\ \A y \in S : Max(S) >= y
    BY <1>2, MaxIsGreatest DEF LastOf
  <2>2. ASSUME NEW x \in S, \A y \in S : x >= y
        PROVE  LastOf(S) = x
    <3>1. x \in 1 .. n /\ Max(S) \in 1 .. n
      BY <2>1
    <3>2. x >= Max(S) /\ Max(S) >= x
      BY <2>1, <2>2
    <3> QED
      BY <2>1, <3>1, <3>2
  <2> QED
    BY <1>2, <2>2
<1> QED
  BY <1>1, <1>2

(* No prev points backwards from a first cell.                             *)
FirstsEndThere(h, m, L) == \A a \in 0 .. m : L[a] # << >> => h.prev[L[a][1]] = Null

(* A cell comes after the cell whose child it is.                          *)
ParentsFirst(m, L) == \A a \in 0 .. m : \A i \in 1 .. Len(L[a]) : a < L[a][i]

(* The cells that are in some list.                                        *)
Listed(m, L) == {c \in 1 .. m : ~ Unlisted(m, L, c)}

(* The lists of the children, in the order of the text.                    *)
ParsedLists(t) ==
    [a \in 0 .. Len(t) |-> CHOOSE s \in Seq(ChildrenOf(t, a)) : Ascending(s, ChildrenOf(t, a))]

(* The list of each array has its children, in ascending order.            *)
LEMMA ParsedListsAscending ==
    ASSUME NEW t \in Tree, NEW a \in 0 .. Len(t)
    PROVE  LET s == ParsedLists(t)[a]
           IN  /\ s \in Seq(ChildrenOf(t, a)) /\ Ascending(s, ChildrenOf(t, a))
               /\ s \in Seq(1 .. Len(t)) /\ Len(s) \in Nat
               /\ \A i \in 1 .. Len(s) : s[i] \in ChildrenOf(t, a)
<1> DEFINE C == ChildrenOf(t, a)
           s == ParsedLists(t)[a]
<1>1. Len(t) \in Nat /\ C \subseteq 1 .. Len(t)
  BY TreeElements DEF ChildrenOf
<1>2. s = CHOOSE r \in Seq(C) : Ascending(r, C)
  BY DEF ParsedLists
<1> HIDE DEF C, s
<1>3. \E r \in Seq(C) : Ascending(r, C)
  BY <1>1, AscendingExists
<1>4. s \in Seq(C) /\ Ascending(s, C)
  BY <1>2, <1>3
<1>5. Len(s) \in Nat /\ \A i \in 1 .. Len(s) : s[i] \in C
  BY <1>4
<1>6. s \in Seq(1 .. Len(t))
  <2>1. \A i \in 1 .. Len(s) : s[i] \in 1 .. Len(t)
    BY <1>1, <1>5
  <2>2. DOMAIN s = 1 .. Len(s) /\ s = [i \in 1 .. Len(s) |-> s[i]]
    BY <1>4
  <2> QED
    BY <1>5, <2>1, <2>2
<1> QED
  BY <1>4, <1>5, <1>6 DEF C, s

(* Parsing makes linked lists in which every cell has its place, and       *)
(* leaves the prev of all first cells Null.                                *)
LEMMA ParseLinked ==
    ASSUME NEW t \in Tree
    PROVE  LET m == Len(t)
               h == parse_array(t)
               L == ParsedLists(t)
           IN  /\ m \in Nat /\ h \in Heaps(m) /\ L \in ListsOf(m)
               /\ Linked(h, m, L)
               /\ FirstsEndThere(h, m, L)
               /\ ParentsFirst(m, L)
               /\ Listed(m, L) = 1 .. m
<1> DEFINE m == Len(t)
           h == parse_array(t)
           L == ParsedLists(t)
<1>1. /\ m \in Nat /\ DOMAIN t = 1 .. m
      /\ \A i \in 1 .. m : t[i].name \in Name /\ t[i].assignable \in BOOLEAN
  <2>1. m \in Nat /\ DOMAIN t = 1 .. m /\ \A i \in 1 .. m : t[i] \in Tag
    BY TreeElements DEF Tree
  <2> QED
    BY <2>1 DEF Tag
<1>2. \A j \in 1 .. m : ParentOf(t, j) \in 0 .. j - 1 /\ ParentOf(t, j) \in 0 .. m
  <2> SUFFICES ASSUME NEW j \in 1 .. m
               PROVE  ParentOf(t, j) \in 0 .. j - 1
    BY <1>1
  <2> QED
    BY ParentOfIsParent DEF IsParent
<1>3. \A a \in 0 .. m : /\ ChildrenOf(t, a) \subseteq 1 .. m
                        /\ \A j \in 1 .. m : j \in ChildrenOf(t, a) <=> ParentOf(t, j) = a
  BY <1>1 DEF ChildrenOf
<1>4. \A a \in 0 .. m :
          /\ L[a] \in Seq(ChildrenOf(t, a)) /\ Ascending(L[a], ChildrenOf(t, a))
          /\ L[a] \in Seq(1 .. m) /\ Len(L[a]) \in Nat
          /\ \A i \in 1 .. Len(L[a]) : L[a][i] \in ChildrenOf(t, a)
  BY ParsedListsAscending
<1>5. L \in ListsOf(m)
  <2>1. DOMAIN L = 0 .. m /\ L = [a \in 0 .. m |-> L[a]]
    BY DEF ParsedLists
  <2> HIDE DEF L
  <2> QED
    BY <1>4, <2>1 DEF ListsOf
<1>6. \A a \in 0 .. m, i \in 0 .. m :
          /\ i \in ChildrenOf(t, a) => SiblingsOf(t, i) = ChildrenOf(t, a)
          /\ SiblingsOf(t, i) \subseteq 1 .. m
  <2> SUFFICES ASSUME NEW a \in 0 .. m, NEW i \in 0 .. m
               PROVE  /\ i \in ChildrenOf(t, a) => SiblingsOf(t, i) = ChildrenOf(t, a)
                      /\ SiblingsOf(t, i) \subseteq 1 .. m
    OBVIOUS
  <2>1. CASE i = Root
    <3>1. i \notin ChildrenOf(t, a)
      BY <1>3, <2>1 DEF Root
    <3> QED
      BY <2>1, <3>1 DEF SiblingsOf
  <2>2. CASE i # Root
    <3>1. i \in 1 .. m
      BY <2>2 DEF Root
    <3> QED
      BY <1>2, <1>3, <2>2, <3>1 DEF SiblingsOf
  <2> QED
    BY <2>1, <2>2
<1>7. /\ h.tag = [i \in 1 .. m |-> [name |-> t[i].name, assignable |-> t[i].assignable]]
      /\ h.child = [i \in 0 .. m |-> FirstOf(ChildrenOf(t, i))]
      /\ h.next = [i \in 0 .. m |-> FirstOf({j \in SiblingsOf(t, i) : j > i})]
      /\ h.prev = [i \in 0 .. m |-> LastOf({j \in SiblingsOf(t, i) : j < i})]
      /\ h = [tag |-> h.tag, child |-> h.child, next |-> h.next, prev |-> h.prev]
  BY <1>1 DEF parse_array
<1> HIDE DEF h, L
<1>8. \A S : S \subseteq 1 .. m => FirstOf(S) \in Pointers(m) /\ LastOf(S) \in Pointers(m)
  <2> SUFFICES ASSUME NEW S, S \subseteq 1 .. m
               PROVE  FirstOf(S) \in Pointers(m) /\ LastOf(S) \in Pointers(m)
    OBVIOUS
  <2>1. CASE S = {}
    BY <2>1 DEF FirstOf, LastOf, Pointers
  <2>2. CASE S # {}
    <3>1. Min(S) \in S /\ Max(S) \in S
      <4>1. S \subseteq Nat
        OBVIOUS
      <4> QED
        BY <1>1, <2>2, <4>1, MinIsLeast, MaxIsGreatest
    <3> QED
      BY <2>2, <3>1 DEF FirstOf, LastOf, Pointers
  <2> QED
    BY <2>1, <2>2
<1>9. h \in Heaps(m)
  <2>1. h.child \in [0 .. m -> Pointers(m)]
    BY <1>3, <1>7, <1>8
  <2>2. \A i \in 0 .. m : /\ {j \in SiblingsOf(t, i) : j > i} \subseteq 1 .. m
                          /\ {j \in SiblingsOf(t, i) : j < i} \subseteq 1 .. m
    BY <1>1, <1>6
  <2>3. h.next \in [0 .. m -> Pointers(m)] /\ h.prev \in [0 .. m -> Pointers(m)]
    BY <1>7, <1>8, <2>2
  <2>4. h.tag \in [1 .. m -> [name : Name, assignable : BOOLEAN]]
    BY <1>1, <1>7
  <2> QED
    BY <1>7, <2>1, <2>3, <2>4 DEF Heaps
(* The neighbours in an ascending list are the nearest greater and the     *)
(* nearest smaller number.                                                 *)
<1>10. ASSUME NEW a \in 0 .. m, NEW k \in 1 .. Len(L[a])
       PROVE  /\ h.next[L[a][k]] = IF k = Len(L[a]) THEN Null ELSE L[a][k + 1]
              /\ h.prev[L[a][k]] = IF k = 1 THEN Null ELSE L[a][k - 1]
  <2> DEFINE s == L[a]
             n == Len(L[a])
             C == ChildrenOf(t, a)
             x == L[a][k]
             Above == {j \in SiblingsOf(t, x) : j > x}
             Below == {j \in SiblingsOf(t, x) : j < x}
  <2>1. /\ n \in Nat /\ C \subseteq 1 .. m /\ x \in C /\ x \in 0 .. m
        /\ \A i \in 1 .. n : s[i] \in C
        /\ Ascending(s, C)
    <3>1. x \in C /\ C \subseteq 1 .. m
      BY <1>3, <1>4, <1>10
    <3>2. x \in 1 .. m
      BY <3>1
    <3>3. x \in 0 .. m
      BY <1>1, <3>2
    <3> QED
      BY <1>4, <3>1, <3>3
  <2>2. SiblingsOf(t, x) = C
    BY <1>6, <2>1
  <2>3. Above \subseteq 1 .. m /\ Below \subseteq 1 .. m /\ Above \subseteq Nat
    BY <2>1, <2>2
  <2>4. \A i, j \in 1 .. n : i < j => s[i] < s[j]
    BY <2>1 DEF Ascending
  <2>5. \A y \in C : \E i \in 1 .. n : s[i] = y
    BY <2>1 DEF Ascending
  <2>6. h.next[x] = FirstOf(Above) /\ h.prev[x] = LastOf(Below)
    BY <1>7, <2>1
  <2>7. \A i \in 1 .. n : s[i] \in Nat
    BY <2>1
  <2>8. \A y \in Above : y \in C /\ y > x
    BY <2>2
  <2>9. \A y \in Below : y \in C /\ y < x
    BY <2>2
  <2>10. \A y \in C : (y > x => y \in Above) /\ (y < x => y \in Below)
    BY <2>2
  <2> HIDE DEF Above, Below, C
  <2>11. h.next[x] = IF k = n THEN Null ELSE s[k + 1]
    <3>1. \A y \in Above : \E i \in k + 1 .. n : s[i] = y
      <4> SUFFICES ASSUME NEW y \in Above
                   PROVE  \E i \in k + 1 .. n : s[i] = y
        OBVIOUS
      <4>1. PICK i \in 1 .. n : s[i] = y
        BY <2>5, <2>8
      <4>2. s[i] > s[k] /\ ~ (i < k) /\ i # k
        BY <1>10, <2>4, <2>7, <2>8, <4>1
      <4>3. i \in k + 1 .. n
        BY <2>1, <4>2
      <4> QED
        BY <4>1, <4>3
    <3>2. CASE k = n
      <4>1. Above = {}
        BY <2>1, <3>1, <3>2
      <4> QED
        BY <2>3, <2>6, <3>2, <4>1, FirstOfIs
    <3>3. CASE k # n
      <4>1. k + 1 \in 1 .. n /\ k < k + 1
        BY <2>1, <3>3
      <4>2. s[k + 1] \in C /\ s[k + 1] > x
        BY <2>1, <2>4, <2>7, <4>1
      <4>3. s[k + 1] \in Above
        BY <2>10, <4>2
      <4>4. \A y \in Above : s[k + 1] <= y
        <5> SUFFICES ASSUME NEW y \in Above
                     PROVE  s[k + 1] <= y
          OBVIOUS
        <5>1. PICK i \in k + 1 .. n : s[i] = y
          BY <3>1
        <5>2. i \in 1 .. n /\ (i = k + 1 \/ k + 1 < i)
          BY <2>1, <5>1
        <5> QED
          BY <2>4, <2>7, <4>1, <5>1, <5>2
      <4> QED
        BY <2>3, <2>6, <3>3, <4>3, <4>4, FirstOfIs
    <3> QED
      BY <3>2, <3>3
  <2>12. h.prev[x] = IF k = 1 THEN Null ELSE s[k - 1]
    <3>1. \A y \in Below : \E i \in 1 .. k - 1 : s[i] = y
      <4> SUFFICES ASSUME NEW y \in Below
                   PROVE  \E i \in 1 .. k - 1 : s[i] = y
        OBVIOUS
      <4>1. PICK i \in 1 .. n : s[i] = y
        BY <2>5, <2>9
      <4>2. s[i] < s[k] /\ ~ (k < i) /\ i # k
        BY <1>10, <2>4, <2>7, <2>9, <4>1
      <4>3. i \in 1 .. k - 1
        BY <2>1, <4>2
      <4> QED
        BY <4>1, <4>3
    <3>2. CASE k = 1
      <4>1. Below = {}
        BY <2>1, <3>1, <3>2
      <4> QED
        BY <1>1, <2>3, <2>6, <3>2, <4>1, LastOfIs
    <3>3. CASE k # 1
      <4>1. k - 1 \in 1 .. n /\ k - 1 < k
        BY <2>1, <3>3
      <4>2. s[k - 1] \in C /\ s[k - 1] < x
        BY <2>1, <2>4, <2>7, <4>1
      <4>3. s[k - 1] \in Below
        BY <2>10, <4>2
      <4>4. \A y \in Below : s[k - 1] >= y
        <5> SUFFICES ASSUME NEW y \in Below
                     PROVE  s[k - 1] >= y
          OBVIOUS
        <5>1. PICK i \in 1 .. k - 1 : s[i] = y
          BY <3>1
        <5>2. i \in 1 .. n /\ (i = k - 1 \/ i < k - 1)
          BY <2>1, <5>1
        <5> QED
          BY <2>4, <2>7, <4>1, <5>1, <5>2, SMTT(20)
      <4> QED
        BY <1>1, <2>3, <2>6, <3>3, <4>3, <4>4, LastOfIs
    <3> QED
      BY <3>2, <3>3
  <2> QED
    BY <2>11, <2>12
<1>11. \A a \in 0 .. m : L[a] = << >> <=> Len(L[a]) = 0
  BY <1>4
<1>12. \A a \in 0 .. m : L[a] # << >> =>
           1 \in 1 .. Len(L[a]) /\ Len(L[a]) \in 1 .. Len(L[a])
  BY <1>4, <1>11
<1>13. \A a \in 0 .. m : h.child[a] = IF L[a] = << >> THEN Null ELSE L[a][1]
  <2> SUFFICES ASSUME NEW a \in 0 .. m
               PROVE  h.child[a] = IF L[a] = << >> THEN Null ELSE L[a][1]
    OBVIOUS
  <2> DEFINE s == L[a]
             C == ChildrenOf(t, a)
  <2>1. h.child[a] = FirstOf(C) /\ C \subseteq 1 .. m /\ C \subseteq Nat
    BY <1>3, <1>7
  <2>2. /\ \A i, j \in 1 .. Len(s) : i < j => s[i] < s[j]
        /\ \A y \in C : \E i \in 1 .. Len(s) : s[i] = y
        /\ \A i \in 1 .. Len(s) : s[i] \in C
        /\ Len(s) \in Nat
    BY <1>4 DEF Ascending
  <2> HIDE DEF C, s
  <2>3. CASE s = << >>
    <3>1. C = {}
      BY <2>2, <2>3
    <3> QED
      BY <2>1, <2>3, <3>1, FirstOfIs DEF s
  <2>4. CASE s # << >>
    <3>1. 1 \in 1 .. Len(s)
      BY <1>12, <2>4 DEF s
    <3>2. \A y \in C : s[1] <= y
      <4> SUFFICES ASSUME NEW y \in C
                   PROVE  s[1] <= y
        OBVIOUS
      <4>1. PICK i \in 1 .. Len(s) : s[i] = y
        BY <2>2
      <4>2. i = 1 \/ 1 < i
        OBVIOUS
      <4>3. s[1] \in Nat /\ s[i] \in Nat
        BY <2>1, <2>2, <3>1
      <4> QED
        BY <2>2, <3>1, <4>1, <4>2, <4>3
    <3> QED
      BY <2>1, <2>2, <2>4, <3>1, <3>2, FirstOfIs DEF s
  <2> QED
    BY <2>3, <2>4
<1>14. FirstLinked(h, m, L) /\ FirstsEndThere(h, m, L)
  BY <1>10, <1>12, <1>13 DEF FirstLinked, FirstsEndThere
<1>15. NeighboursLinked(h, m, L)
  <2> SUFFICES ASSUME NEW a \in 0 .. m, NEW k \in 1 .. Len(L[a]) - 1
               PROVE  h.next[L[a][k]] = L[a][k + 1] /\ h.prev[L[a][k + 1]] = L[a][k]
    BY DEF NeighboursLinked
  <2>1. /\ k \in 1 .. Len(L[a]) /\ k + 1 \in 1 .. Len(L[a]) /\ k # Len(L[a])
        /\ k + 1 # 1 /\ k + 1 - 1 = k
    BY <1>4
  <2> QED
    BY <1>10, <2>1
<1>16. Disjoint(m, L)
  <2> SUFFICES ASSUME NEW a \in 0 .. m, NEW b \in 0 .. m,
                      NEW i \in 1 .. Len(L[a]), NEW j \in 1 .. Len(L[b]), L[a][i] = L[b][j]
               PROVE  a = b /\ i = j
    BY DEF Disjoint
  <2>1. /\ L[a][i] \in ChildrenOf(t, a) /\ L[a][i] \in ChildrenOf(t, b) /\ L[a][i] \in 1 .. m
    BY <1>3, <1>4
  <2>2. a = b
    BY <1>3, <2>1
  <2>3. ~ (i < j) /\ ~ (j < i)
    <3>1. \A k, l \in 1 .. Len(L[a]) : k < l => L[a][k] < L[a][l]
      BY <1>4 DEF Ascending
    <3>2. j \in 1 .. Len(L[a]) /\ L[a][j] = L[a][i]
      BY <2>2
    <3> QED
      BY <2>1, <3>1, <3>2
  <2> QED
    BY <2>2, <2>3
<1>17. ParentsFirst(m, L)
  <2> SUFFICES ASSUME NEW a \in 0 .. m, NEW i \in 1 .. Len(L[a])
               PROVE  a < L[a][i]
    BY DEF ParentsFirst
  <2>1. L[a][i] \in 1 .. m /\ ParentOf(t, L[a][i]) = a
    BY <1>3, <1>4
  <2>2. a \in 0 .. L[a][i] - 1
    BY <1>2, <2>1
  <2> QED
    BY <2>1, <2>2
<1>18. Listed(m, L) = 1 .. m
  <2> SUFFICES ASSUME NEW c \in 1 .. m
               PROVE  ~ Unlisted(m, L, c)
    BY DEF Listed
  <2>1. /\ ParentOf(t, c) \in 0 .. m
        /\ c \in ChildrenOf(t, ParentOf(t, c))
    BY <1>2, <1>3
  <2>2. PICK i \in 1 .. Len(L[ParentOf(t, c)]) : L[ParentOf(t, c)][i] = c
    BY <1>4, <2>1 DEF Ascending
  <2> QED
    BY <2>1, <2>2 DEF Unlisted
<1> QED
  BY <1>1, <1>5, <1>9, <1>14, <1>15, <1>16, <1>17, <1>18 DEF Linked, h, L

(* An appended cell is listed, with the others.                            *)
LEMMA AppendedListed ==
    ASSUME NEW m \in Nat, NEW L \in ListsOf(m), NEW a \in 0 .. m, NEW item \in 1 .. m,
           ParentsFirst(m, L), a < item
    PROVE  LET M == Appended(L, a, item)
           IN  /\ Listed(m, M) = Listed(m, L) \cup {item}
               /\ ParentsFirst(m, M)
<1> DEFINE M == Appended(L, a, item)
           n == Len(L[a])
<1>1. /\ M \in ListsOf(m)
      /\ \A b \in 0 .. m : b # a => M[b] = L[b]
      /\ Len(M[a]) = n + 1
      /\ \A i \in 1 .. n : M[a][i] = L[a][i]
      /\ M[a][n + 1] = item
      /\ n \in Nat
  <2>1. n \in Nat
    BY ListElements
  <2> QED
    BY <2>1, AppendedLists
<1> HIDE DEF M, n
<1>2. \A b \in 0 .. m : \A i \in 1 .. Len(M[b]) :
          (i \in 1 .. Len(L[b]) /\ M[b][i] = L[b][i]) \/ (b = a /\ M[b][i] = item)
  <2> SUFFICES ASSUME NEW b \in 0 .. m, NEW i \in 1 .. Len(M[b])
               PROVE  \/ i \in 1 .. Len(L[b]) /\ M[b][i] = L[b][i]
                      \/ b = a /\ M[b][i] = item
    OBVIOUS
  <2>1. CASE b # a
    BY <1>1, <2>1
  <2>2. CASE b = a /\ i = n + 1
    BY <1>1, <2>2
  <2>3. CASE b = a /\ i # n + 1
    <3>1. i \in 1 .. n
      BY <1>1, <2>3
    <3> QED
      BY <1>1, <2>3, <3>1 DEF n
  <2> QED
    BY <2>1, <2>2, <2>3
<1>3. \A b \in 0 .. m : \A i \in 1 .. Len(L[b]) : i \in 1 .. Len(M[b]) /\ M[b][i] = L[b][i]
  <2> SUFFICES ASSUME NEW b \in 0 .. m, NEW i \in 1 .. Len(L[b])
               PROVE  i \in 1 .. Len(M[b]) /\ M[b][i] = L[b][i]
    OBVIOUS
  <2>1. CASE b # a
    BY <1>1, <2>1
  <2>2. CASE b = a
    <3>1. i \in 1 .. n
      BY <2>2 DEF n
    <3> QED
      BY <1>1, <2>2, <3>1
  <2> QED
    BY <2>1, <2>2
<1>4. n + 1 \in 1 .. Len(M[a])
  BY <1>1
<1>5. \A c \in 1 .. m : Unlisted(m, M, c) <=> Unlisted(m, L, c) /\ c # item
  <2> SUFFICES ASSUME NEW c \in 1 .. m
               PROVE  Unlisted(m, M, c) <=> Unlisted(m, L, c) /\ c # item
    OBVIOUS
  <2>1. ASSUME Unlisted(m, M, c)
        PROVE  Unlisted(m, L, c) /\ c # item
    BY <1>1, <1>3, <1>4, <2>1 DEF Unlisted
  <2>2. ASSUME Unlisted(m, L, c), c # item
        PROVE  Unlisted(m, M, c)
    BY <1>2, <2>2 DEF Unlisted
  <2> QED
    BY <2>1, <2>2
<1>6. Listed(m, M) = Listed(m, L) \cup {item}
  BY <1>5 DEF Listed
<1>7. ParentsFirst(m, M)
  BY <1>2 DEF ParentsFirst
<1> QED
  BY <1>6, <1>7 DEF M

(* A detached cell is listed no more, the others are.                      *)
LEMMA DetachedListed ==
    ASSUME NEW m \in Nat, NEW L \in ListsOf(m), Disjoint(m, L), ParentsFirst(m, L),
           NEW a \in 0 .. m, NEW k \in 1 .. Len(L[a])
    PROVE  LET M == Detached(L, a, k)
           IN  /\ Listed(m, M) = Listed(m, L) \ {L[a][k]}
               /\ ParentsFirst(m, M)
<1> DEFINE M == Detached(L, a, k)
           n == Len(L[a])
           item == L[a][k]
<1>1. /\ M \in ListsOf(m)
      /\ \A b \in 0 .. m : b # a => M[b] = L[b]
      /\ Len(M[a]) = n - 1
      /\ \A i \in 1 .. n - 1 : M[a][i] = IF i < k THEN L[a][i] ELSE L[a][i + 1]
      /\ n \in Nat /\ k \in 1 .. n
  BY DetachedLists, ListElements
<1> HIDE DEF M, n
<1>2. \A b \in 0 .. m : \A i \in 1 .. Len(M[b]) :
          \E j \in 1 .. Len(L[b]) : M[b][i] = L[b][j] /\ ~ (b = a /\ j = k)
  <2> SUFFICES ASSUME NEW b \in 0 .. m, NEW i \in 1 .. Len(M[b])
               PROVE  \E j \in 1 .. Len(L[b]) : M[b][i] = L[b][j] /\ ~ (b = a /\ j = k)
    OBVIOUS
  <2>1. CASE b # a
    BY <1>1, <2>1
  <2>2. CASE b = a
    <3>1. i \in 1 .. n - 1 /\ i \in 1 .. n /\ i + 1 \in 1 .. n
      BY <1>1, <2>2
    <3>2. CASE i < k
      BY <1>1, <2>2, <3>1, <3>2 DEF n
    <3>3. CASE ~ (i < k)
      <4>1. i + 1 # k /\ M[b][i] = L[b][i + 1]
        BY <1>1, <2>2, <3>1, <3>3
      <4> QED
        BY <2>2, <3>1, <4>1 DEF n
    <3> QED
      BY <3>2, <3>3
  <2> QED
    BY <2>1, <2>2
<1>3. \A b \in 0 .. m : \A j \in 1 .. Len(L[b]) : ~ (b = a /\ j = k) =>
          \E i \in 1 .. Len(M[b]) : M[b][i] = L[b][j]
  <2> SUFFICES ASSUME NEW b \in 0 .. m, NEW j \in 1 .. Len(L[b]), ~ (b = a /\ j = k)
               PROVE  \E i \in 1 .. Len(M[b]) : M[b][i] = L[b][j]
    OBVIOUS
  <2>1. CASE b # a
    BY <1>1, <2>1
  <2>2. CASE b = a
    <3>1. j \in 1 .. n /\ j # k
      BY <2>2 DEF n
    <3>2. CASE j < k
      <4>1. j \in 1 .. n - 1
        BY <1>1, <3>1, <3>2
      <4> QED
        BY <1>1, <2>2, <3>2, <4>1
    <3>3. CASE j > k
      <4>1. j - 1 \in 1 .. n - 1 /\ ~ (j - 1 < k) /\ j - 1 + 1 = j
        BY <1>1, <3>1, <3>3
      <4>2. M[b][j - 1] = L[b][j]
        BY <1>1, <2>2, <4>1
      <4> QED
        BY <1>1, <2>2, <4>1, <4>2
    <3> QED
      BY <1>1, <3>1, <3>2, <3>3
  <2> QED
    BY <2>1, <2>2
<1>4. \A b \in 0 .. m : \A j \in 1 .. Len(L[b]) : L[b][j] = item <=> b = a /\ j = k
  BY <1>1 DEF Disjoint, n
<1>5. \A c \in 1 .. m : Unlisted(m, M, c) <=> Unlisted(m, L, c) \/ c = item
  <2> SUFFICES ASSUME NEW c \in 1 .. m
               PROVE  Unlisted(m, M, c) <=> Unlisted(m, L, c) \/ c = item
    OBVIOUS
  <2>1. ASSUME Unlisted(m, L, c) \/ c = item
        PROVE  Unlisted(m, M, c)
    <3> SUFFICES ASSUME NEW b \in 0 .. m, NEW i \in 1 .. Len(M[b]), M[b][i] = c
                 PROVE  FALSE
      BY DEF Unlisted
    <3>1. PICK j \in 1 .. Len(L[b]) : M[b][i] = L[b][j] /\ ~ (b = a /\ j = k)
      BY <1>2
    <3> QED
      BY <1>4, <2>1, <3>1 DEF Unlisted
  <2>2. ASSUME Unlisted(m, M, c), c # item
        PROVE  Unlisted(m, L, c)
    <3> SUFFICES ASSUME NEW b \in 0 .. m, NEW j \in 1 .. Len(L[b])
                 PROVE  L[b][j] # c
      BY DEF Unlisted
    <3>1. CASE b = a /\ j = k
      BY <2>2, <3>1
    <3>2. CASE ~ (b = a /\ j = k)
      <4>1. PICK i \in 1 .. Len(M[b]) : M[b][i] = L[b][j]
        BY <1>3, <3>2
      <4> QED
        BY <2>2, <4>1 DEF Unlisted
    <3> QED
      BY <3>1, <3>2
  <2> QED
    BY <2>1, <2>2
<1>6. Listed(m, M) = Listed(m, L) \ {item}
  BY <1>5 DEF Listed
<1>7. ParentsFirst(m, M)
  BY <1>2 DEF ParentsFirst
<1> QED
  BY <1>6, <1>7 DEF M

(* A new cell is in no list, and nothing else changes.                     *)
Extended(L, m) == [a \in 0 .. m + 1 |-> IF a = m + 1 THEN << >> ELSE L[a]]

(* The new cell is linked to nothing yet.                                  *)
LEMMA NewItemLinked ==
    ASSUME NEW m \in Nat, NEW h \in Heaps(m), NEW L \in ListsOf(m), Linked(h, m, L),
           NEW tag \in Name, NEW assignable \in BOOLEAN
    PROVE  LET g == cJSON_New_Item(h, tag, assignable)
               M == Extended(L, m)
           IN  /\ NewCell(h) = m + 1
               /\ g \in Heaps(m + 1) /\ M \in ListsOf(m + 1)
               /\ Linked(g, m + 1, M)
               /\ g.next[m + 1] = Null
               /\ Unlisted(m + 1, M, m + 1)
               /\ Listed(m + 1, M) = Listed(m, L)
               /\ ParentsFirst(m, L) => ParentsFirst(m + 1, M)
<1> DEFINE g == cJSON_New_Item(h, tag, assignable)
           M == Extended(L, m)
           N == m + 1
<1>1. NewCell(h) = N
  <2>1. DOMAIN h.next = 0 .. m /\ m \in 0 .. m /\ \A x \in 0 .. m : m >= x
    BY HeapCells
  <2>2. Max(0 .. m) = m
    <3>1. Max(0 .. m) \in 0 .. m /\ \A x \in 0 .. m : Max(0 .. m) >= x
      BY <2>1 DEF Max
    <3>2. Max(0 .. m) >= m /\ m >= Max(0 .. m) /\ Max(0 .. m) \in Nat
      BY <2>1, <3>1
    <3> QED
      BY <3>2
  <2> QED
    BY <2>1, <2>2 DEF NewCell
<1>2. /\ h.child \in [0 .. m -> Pointers(m)] /\ h.next \in [0 .. m -> Pointers(m)]
      /\ h.prev \in [0 .. m -> Pointers(m)]
      /\ h.tag \in [1 .. m -> [name : Name, assignable : BOOLEAN]]
  BY DEF Heaps
<1>3. /\ 0 .. N = 0 .. m \cup {N} /\ 1 .. N = 1 .. m \cup {N} /\ N \notin 0 .. m /\ N \notin 1 .. m
      /\ N \in Nat
  OBVIOUS
<1>4. /\ g.tag = [i \in 1 .. N |-> IF i = N THEN [name |-> tag, assignable |-> assignable]
                                   ELSE h.tag[i]]
      /\ g.child = [i \in 0 .. N |-> IF i = N THEN Null ELSE h.child[i]]
      /\ g.next = [i \in 0 .. N |-> IF i = N THEN Null ELSE h.next[i]]
      /\ g.prev = [i \in 0 .. N |-> IF i = N THEN Null ELSE h.prev[i]]
      /\ g = [tag |-> g.tag, child |-> g.child, next |-> g.next, prev |-> g.prev]
  <2> DEFINE With(f, x) == [c \in DOMAIN f \cup {N} |-> IF c = N THEN x ELSE f[c]]
  <2>1. /\ g.tag = With(h.tag, [name |-> tag, assignable |-> assignable])
        /\ g.child = With(h.child, Null) /\ g.next = With(h.next, Null)
        /\ g.prev = With(h.prev, Null)
        /\ g = [tag |-> g.tag, child |-> g.child, next |-> g.next, prev |-> g.prev]
    BY <1>1 DEF cJSON_New_Item
  <2>2. /\ DOMAIN h.tag \cup {N} = 1 .. N /\ DOMAIN h.child \cup {N} = 0 .. N
        /\ DOMAIN h.next \cup {N} = 0 .. N /\ DOMAIN h.prev \cup {N} = 0 .. N
    BY <1>2, <1>3
  <2> HIDE DEF g, N
  <2> QED
    BY <2>1, <2>2
<1> HIDE DEF g, M, N
<1>5. Pointers(m) \subseteq Pointers(N) /\ Null \in Pointers(N)
  BY <1>3 DEF Pointers
<1>6. g \in Heaps(N)
  <2>1. /\ g.child \in [0 .. N -> Pointers(N)] /\ g.next \in [0 .. N -> Pointers(N)]
        /\ g.prev \in [0 .. N -> Pointers(N)]
    BY <1>2, <1>3, <1>4, <1>5
  <2>2. g.tag \in [1 .. N -> [name : Name, assignable : BOOLEAN]]
    BY <1>2, <1>3, <1>4
  <2> QED
    BY <1>4, <2>1, <2>2 DEF Heaps
<1>7. /\ DOMAIN M = 0 .. N /\ M[N] = << >> /\ Len(M[N]) = 0
      /\ \A a \in 0 .. m : M[a] = L[a] /\ a \in 0 .. N /\ a # N
  BY <1>3 DEF M, N, Extended
<1>8. \A a \in 0 .. m : /\ L[a] \in Seq(1 .. m) /\ Len(L[a]) \in Nat
                        /\ L[a] \in Seq(1 .. N)
                        /\ \A i \in 1 .. Len(L[a]) : L[a][i] \in 1 .. m /\ L[a][i] # N
  <2> SUFFICES ASSUME NEW a \in 0 .. m
               PROVE  /\ L[a] \in Seq(1 .. m) /\ Len(L[a]) \in Nat
                      /\ L[a] \in Seq(1 .. N)
                      /\ \A i \in 1 .. Len(L[a]) : L[a][i] \in 1 .. m /\ L[a][i] # N
    OBVIOUS
  <2>1. /\ L[a] \in Seq(1 .. m) /\ Len(L[a]) \in Nat
        /\ \A i \in 1 .. Len(L[a]) : L[a][i] \in 1 .. m
    BY ListElements
  <2>2. \A i \in 1 .. Len(L[a]) : L[a][i] \in 1 .. N /\ L[a][i] # N
    BY <1>3, <2>1
  <2>3. L[a] = [i \in 1 .. Len(L[a]) |-> L[a][i]]
    BY <2>1
  <2>4. L[a] \in Seq(1 .. N)
    <3> DEFINE n == Len(L[a])
    <3>1. n \in Nat
      BY <2>1
    <3> HIDE DEF n
    <3>2. [i \in 1 .. n |-> L[a][i]] \in Seq(1 .. N)
      BY <2>2, <3>1 DEF n
    <3> QED
      BY <2>3, <3>2 DEF n
  <2> QED
    BY <2>1, <2>2, <2>4
<1>9. M \in ListsOf(N)
  <2>1. \A a \in 0 .. N : M[a] \in Seq(1 .. N)
    <3> SUFFICES ASSUME NEW a \in 0 .. N
                 PROVE  M[a] \in Seq(1 .. N)
      OBVIOUS
    <3>1. CASE a = N
      BY <1>7, <3>1
    <3>2. CASE a # N
      <4>1. a \in 0 .. m
        BY <1>3, <3>2
      <4> QED
        BY <1>7, <1>8, <4>1
    <3> QED
      BY <3>1, <3>2
  <2>2. M = [a \in 0 .. N |-> M[a]]
    BY <1>7 DEF M, Extended
  <2> QED
    BY <2>1, <2>2 DEF ListsOf
<1>10. \A c \in 0 .. m : g.child[c] = h.child[c] /\ g.next[c] = h.next[c] /\ g.prev[c] = h.prev[c]
  BY <1>3, <1>4
<1>11. \A a \in 0 .. N : \A i \in 1 .. Len(M[a]) : a \in 0 .. m /\ i \in 1 .. Len(L[a])
  BY <1>3, <1>7
<1>12. FirstLinked(g, N, M)
  <2> SUFFICES ASSUME NEW a \in 0 .. N
               PROVE  IF M[a] = << >> THEN g.child[a] = Null
                      ELSE /\ g.child[a] = M[a][1]
                           /\ g.prev[M[a][1]] \in {Null, M[a][Len(M[a])]}
                           /\ g.next[M[a][Len(M[a])]] = Null
    BY DEF FirstLinked
  <2>1. CASE a = N
    BY <1>3, <1>4, <1>7, <2>1
  <2>2. CASE a # N
    <3>1. a \in 0 .. m /\ M[a] = L[a] /\ g.child[a] = h.child[a]
      BY <1>3, <1>7, <1>10, <2>2
    <3>2. CASE L[a] = << >>
      BY <3>1, <3>2 DEF Linked, FirstLinked
    <3>3. CASE L[a] # << >>
      <4>1. 1 \in 1 .. Len(L[a]) /\ Len(L[a]) \in 1 .. Len(L[a])
        BY <1>8, <3>1, <3>3
      <4>2. L[a][1] \in 1 .. m /\ L[a][Len(L[a])] \in 1 .. m
        BY <1>8, <3>1, <4>1
      <4>3. L[a][1] \in 0 .. m /\ L[a][Len(L[a])] \in 0 .. m
        BY <4>2
      <4> QED
        BY <1>10, <3>1, <3>3, <4>3 DEF Linked, FirstLinked
    <3> QED
      BY <3>2, <3>3
  <2> QED
    BY <2>1, <2>2
<1>13. NeighboursLinked(g, N, M)
  <2> SUFFICES ASSUME NEW a \in 0 .. N, NEW k \in 1 .. Len(M[a]) - 1
               PROVE  g.next[M[a][k]] = M[a][k + 1] /\ g.prev[M[a][k + 1]] = M[a][k]
    BY DEF NeighboursLinked
  <2>1. a # N
    <3> SUFFICES ASSUME a = N PROVE FALSE
      OBVIOUS
    <3>1. Len(M[a]) = 0
      BY <1>7
    <3> QED
      BY <3>1
  <2>2. a \in 0 .. m /\ M[a] = L[a] /\ Len(L[a]) \in Nat
    BY <1>3, <1>7, <1>8, <2>1
  <2>3. k \in 1 .. Len(L[a]) - 1 /\ k \in 1 .. Len(L[a]) /\ k + 1 \in 1 .. Len(L[a])
    BY <2>2
  <2>4. L[a][k] \in 1 .. m /\ L[a][k + 1] \in 1 .. m
    BY <1>8, <2>2, <2>3
  <2>5. L[a][k] \in 0 .. m /\ L[a][k + 1] \in 0 .. m
    BY <2>4
  <2>6. h.next[L[a][k]] = L[a][k + 1] /\ h.prev[L[a][k + 1]] = L[a][k]
    BY <2>2, <2>3 DEF Linked, NeighboursLinked
  <2> QED
    BY <1>10, <2>2, <2>5, <2>6
<1>14. Disjoint(N, M)
  <2> SUFFICES ASSUME NEW a \in 0 .. N, NEW b \in 0 .. N,
                      NEW i \in 1 .. Len(M[a]), NEW j \in 1 .. Len(M[b]), M[a][i] = M[b][j]
               PROVE  a = b /\ i = j
    BY DEF Disjoint
  <2>1. /\ a \in 0 .. m /\ i \in 1 .. Len(L[a]) /\ b \in 0 .. m /\ j \in 1 .. Len(L[b])
        /\ L[a][i] = L[b][j]
    BY <1>7, <1>11
  <2> QED
    BY <2>1 DEF Linked, Disjoint
<1>15. g.next[N] = Null
  BY <1>3, <1>4
<1>16. Unlisted(N, M, N)
  BY <1>7, <1>8, <1>11 DEF Unlisted
<1>17. \A c \in 1 .. m : Unlisted(N, M, c) <=> Unlisted(m, L, c)
  BY <1>7, <1>11, SMTT(20) DEF Unlisted
<1>18. Listed(N, M) = Listed(m, L)
  BY <1>3, <1>16, <1>17 DEF Listed
<1>19. ParentsFirst(m, L) => ParentsFirst(N, M)
  BY <1>7, <1>11 DEF ParentsFirst
<1> QED
  BY <1>1, <1>6, <1>9, <1>12, <1>13, <1>14, <1>15, <1>16, <1>18, <1>19 DEF Linked, g, M, N

(* The equation of cJSON_Delete.                                           *)
LEMMA DeleteEquation ==
    ASSUME NEW m \in Nat, NEW h \in Heaps(m)
    PROVE  \E from :
              /\ \A n \in 0 .. m + 1, x \in Pointers(m) :
                     from[n][x] = IF x = Null \/ n = 0 THEN << >>
                                  ELSE from[n - 1][h.child[x]] \o <<x>> \o from[n - 1][h.next[x]]
              /\ \A c \in Pointers(m) : cJSON_Delete(h, c) = from[m + 1][c]
<1> DEFINE X == [Pointers(m) -> Seq(1 .. m)]
           base == [x \in Pointers(m) |-> << >>]
           Step(g) == [x \in Pointers(m) |->
                          IF x = Null THEN << >>
                          ELSE g[h.child[x]] \o <<x>> \o g[h.next[x]]]
           step == [g \in X |-> Step(g)]
           IsFrom(f) == f = [n \in Calls(h) |-> [x \in Links(h) |->
                                IF x = Null \/ n = 0 THEN << >>
                                ELSE f[n - 1][h.child[x]] \o <<x>> \o f[n - 1][h.next[x]]]]
           from == CHOOSE f : IsFrom(f)
<1>1. base \in X
  OBVIOUS
<1>2. \A x \in Pointers(m) : x # Null =>
          x \in 1 .. m /\ h.next[x] \in Pointers(m) /\ h.child[x] \in Pointers(m)
  BY DEF Pointers, Heaps
<1>3. step \in [X -> X]
  <2> SUFFICES ASSUME NEW g \in X
               PROVE  Step(g) \in X
    OBVIOUS
  <2>1. ASSUME NEW x \in Pointers(m), x # Null
        PROVE  g[h.child[x]] \o <<x>> \o g[h.next[x]] \in Seq(1 .. m)
    <3>1. /\ <<x>> \in Seq(1 .. m) /\ g[h.next[x]] \in Seq(1 .. m)
          /\ g[h.child[x]] \in Seq(1 .. m)
      BY <1>2, <2>1
    <3>2. g[h.child[x]] \o <<x>> \in Seq(1 .. m)
      BY <3>1, ConcatProperties
    <3> QED
      BY <3>1, <3>2, ConcatProperties
  <2>2. << >> \in Seq(1 .. m)
    OBVIOUS
  <2> QED
    BY <2>1, <2>2
<1>4. PICK f \in [0 .. m + 1 -> X] : Iterates(f, m + 1, base, step)
  <2> HIDE DEF X, base, step
  <2> QED
    BY <1>1, <1>3, IterationExists
<1>5. IsFrom(f)
  <2> DEFINE F == [n \in 0 .. m + 1 |-> [x \in Pointers(m) |->
                      IF x = Null \/ n = 0 THEN << >>
                      ELSE f[n - 1][h.child[x]] \o <<x>> \o f[n - 1][h.next[x]]]]
  <2>1. \A n \in 0 .. m + 1 : f[n] = F[n]
    <3> SUFFICES ASSUME NEW n \in 0 .. m + 1
                 PROVE  f[n] = F[n]
      OBVIOUS
    <3>1. CASE n = 0
      <4>1. f[n] = base
        BY <1>4, <3>1 DEF Iterates
      <4> QED
        BY <3>1, <4>1
    <3>2. CASE n # 0
      <4>1. n - 1 \in 0 .. m + 1 /\ f[n - 1] \in X
        BY <1>4, <3>2
      <4>2. f[n] = step[f[n - 1]]
        BY <1>4, <3>2 DEF Iterates
      <4>3. f[n] = Step(f[n - 1])
        BY <4>1, <4>2
      <4> QED
        BY <3>2, <4>3
    <3> QED
      BY <3>1, <3>2
  <2>2. f = F
    <3> HIDE DEF X, base, step
    <3>1. f = [n \in 0 .. m + 1 |-> f[n]]
      OBVIOUS
    <3> QED
      BY <2>1, <3>1
  <2> QED
    BY <2>2, HeapCells
<1>6. IsFrom(from)
  BY <1>5
<1>7. \A c \in Pointers(m) : cJSON_Delete(h, c) = from[m + 1][c]
  BY HeapCells DEF cJSON_Delete
<1> DEFINE Value(g, n, x) == IF x = Null \/ n = 0 THEN << >>
                             ELSE g[h.child[x]] \o <<x>> \o g[h.next[x]]
<1>8. from = [n \in 0 .. m + 1 |-> [x \in Pointers(m) |-> Value(from[n - 1], n, x)]]
  BY <1>6, HeapCells
<1> HIDE DEF from, Value
<1>9. \A n \in 0 .. m + 1, x \in Pointers(m) : from[n][x] = Value(from[n - 1], n, x)
  <2> SUFFICES ASSUME NEW n \in 0 .. m + 1, NEW x \in Pointers(m)
               PROVE  from[n][x] = Value(from[n - 1], n, x)
    OBVIOUS
  <2>1. from[n] = [y \in Pointers(m) |-> Value(from[n - 1], n, y)]
    BY <1>8, Zenon
  <2> QED
    BY <2>1, Zenon
<1> QED
  BY <1>7, <1>9 DEF Value

(* What Preorder lists: cells with their depths.                           *)
Entries(m) == [cell : Pointers(m), depth : Nat]

Below(h, e) == [cell |-> h.child[e.cell], depth |-> e.depth + 1]
Behind(h, e) == [cell |-> h.next[e.cell], depth |-> e.depth]

(* The equation of Preorder.                                               *)
LEMMA PreorderEquation ==
    ASSUME NEW m \in Nat, NEW h \in Heaps(m)
    PROVE  \E from :
              /\ \A n \in 0 .. m + 1, e \in Entries(m) :
                     from[n][e] = IF e.cell = Null \/ n = 0 THEN << >>
                                  ELSE <<e>> \o from[n - 1][Below(h, e)]
                                            \o from[n - 1][Behind(h, e)]
              /\ Preorder(h) = from[m + 1][[cell |-> h.child[0], depth |-> 0]]
<1> DEFINE E == Entries(m)
           X == [E -> Seq(E)]
           base == [e \in E |-> << >>]
           Step(g) == [e \in E |->
                          IF e.cell = Null THEN << >>
                          ELSE <<e>> \o g[Below(h, e)] \o g[Behind(h, e)]]
           step == [g \in X |-> Step(g)]
           IsFrom(f) == f = [n \in Calls(h) |-> [e \in [cell : Links(h), depth : Nat] |->
                   IF e.cell = Null \/ n = 0 THEN << >>
                   ELSE <<e>> \o f[n - 1][[cell |-> h.child[e.cell], depth |-> e.depth + 1]]
                             \o f[n - 1][[cell |-> h.next[e.cell], depth |-> e.depth]]]]
           from == CHOOSE f : IsFrom(f)
<1>1. base \in X
  OBVIOUS
<1>2. \A e \in E : e.cell # Null => Below(h, e) \in E /\ Behind(h, e) \in E
  <2> SUFFICES ASSUME NEW e \in E, e.cell # Null
               PROVE  Below(h, e) \in E /\ Behind(h, e) \in E
    OBVIOUS
  <2>1. e.cell \in 1 .. m /\ e.depth \in Nat /\ e.depth + 1 \in Nat
    BY DEF Entries, Pointers
  <2>2. h.next[e.cell] \in Pointers(m) /\ h.child[e.cell] \in Pointers(m)
    BY <2>1 DEF Heaps
  <2> QED
    BY <2>1, <2>2 DEF Entries, Below, Behind
<1>3. step \in [X -> X]
  <2> SUFFICES ASSUME NEW g \in X
               PROVE  Step(g) \in X
    OBVIOUS
  <2> HIDE DEF E
  <2>1. ASSUME NEW e \in E, e.cell # Null
        PROVE  <<e>> \o g[Below(h, e)] \o g[Behind(h, e)] \in Seq(E)
    <3>1. <<e>> \in Seq(E) /\ g[Below(h, e)] \in Seq(E) /\ g[Behind(h, e)] \in Seq(E)
      BY <1>2, <2>1
    <3>2. <<e>> \o g[Below(h, e)] \in Seq(E)
      BY <3>1, ConcatProperties
    <3> QED
      BY <3>1, <3>2, ConcatProperties
  <2>2. << >> \in Seq(E)
    OBVIOUS
  <2> QED
    BY <2>1, <2>2
<1>4. PICK f \in [0 .. m + 1 -> X] : Iterates(f, m + 1, base, step)
  <2> HIDE DEF X, base, step
  <2> QED
    BY <1>1, <1>3, IterationExists
<1> DEFINE Value(g, n, e) == IF e.cell = Null \/ n = 0 THEN << >>
                             ELSE <<e>> \o g[Below(h, e)] \o g[Behind(h, e)]
           Solves(f_) == f_ = [n \in 0 .. m + 1 |-> [e \in E |-> Value(f_[n - 1], n, e)]]
<1>5. \A g : IsFrom(g) <=> Solves(g)
  BY HeapCells DEF Entries, Below, Behind
<1>6. Solves(f)
  <2> DEFINE F == [n \in 0 .. m + 1 |-> [e \in E |-> Value(f[n - 1], n, e)]]
  <2> HIDE DEF E
  <2>1. \A n \in 0 .. m + 1 : f[n] = F[n]
    <3> SUFFICES ASSUME NEW n \in 0 .. m + 1
                 PROVE  f[n] = F[n]
      OBVIOUS
    <3>1. CASE n = 0
      <4>1. f[n] = base
        BY <1>4, <3>1 DEF Iterates
      <4> QED
        BY <3>1, <4>1
    <3>2. CASE n # 0
      <4>1. n - 1 \in 0 .. m + 1 /\ f[n - 1] \in X
        BY <1>4, <3>2
      <4>2. f[n] = step[f[n - 1]]
        BY <1>4, <3>2 DEF Iterates
      <4>3. f[n] = Step(f[n - 1])
        BY <4>1, <4>2
      <4> QED
        BY <3>2, <4>3
    <3> QED
      BY <3>1, <3>2
  <2> HIDE DEF X, base, step, Value
  <2>2. f = [n \in 0 .. m + 1 |-> f[n]]
    BY <1>4
  <2> QED
    BY <2>1, <2>2
<1>7. Solves(from)
  <2> HIDE DEF Solves
  <2>1. IsFrom(f)
    BY <1>5, <1>6
  <2>2. IsFrom(from)
    BY <2>1
  <2> QED
    BY <1>5, <2>2
<1>8. Preorder(h) = from[m + 1][[cell |-> h.child[0], depth |-> 0]]
  BY HeapCells DEF Preorder, Root
<1> HIDE DEF from, Value, E
<1>9. \A n \in 0 .. m + 1, e \in E : from[n][e] = Value(from[n - 1], n, e)
  <2> SUFFICES ASSUME NEW n \in 0 .. m + 1, NEW e \in E
               PROVE  from[n][e] = Value(from[n - 1], n, e)
    OBVIOUS
  <2>1. from[n] = [y \in E |-> Value(from[n - 1], n, y)]
    BY <1>7, Zenon
  <2> QED
    BY <2>1, Zenon
<1> QED
  BY <1>8, <1>9 DEF Value, E


(***************************************************************************)
(* Looking a tag up.                                                       *)
(***************************************************************************)

(* From a listed cell, and from any array, the pointers lead to listed     *)
(* cells.                                                                  *)
LEMMA PointersListed ==
    ASSUME NEW m \in Nat, NEW h \in Heaps(m), NEW L \in ListsOf(m), Linked(h, m, L)
    PROVE  /\ \A a \in 0 .. m : h.child[a] \in Listed(m, L) \cup {Null}
           /\ \A c \in Listed(m, L) : h.next[c] \in Listed(m, L) \cup {Null}
<1>1. \A a \in 0 .. m : /\ L[a] = << >> <=> Len(L[a]) = 0
                        /\ Len(L[a]) \in Nat
                        /\ \A i \in 1 .. Len(L[a]) : L[a][i] \in 1 .. m
  BY ListElements
<1>2. ASSUME NEW a \in 0 .. m, NEW i \in 1 .. Len(L[a])
      PROVE  L[a][i] \in Listed(m, L)
  BY <1>1, <1>2 DEF Listed, Unlisted
<1>3. ASSUME NEW a \in 0 .. m
      PROVE  h.child[a] \in Listed(m, L) \cup {Null}
  <2>1. CASE L[a] = << >>
    BY <2>1 DEF Linked, FirstLinked
  <2>2. CASE L[a] # << >>
    <3>1. 1 \in 1 .. Len(L[a])
      BY <1>1, <2>2
    <3> QED
      BY <1>2, <2>2, <3>1 DEF Linked, FirstLinked
  <2> QED
    BY <2>1, <2>2
<1>4. ASSUME NEW c \in Listed(m, L)
      PROVE  h.next[c] \in Listed(m, L) \cup {Null}
  <2>1. PICK a \in 0 .. m : \E i \in 1 .. Len(L[a]) : L[a][i] = c
    BY DEF Listed, Unlisted
  <2>2. PICK i \in 1 .. Len(L[a]) : L[a][i] = c
    BY <2>1
  <2>3. CASE i = Len(L[a])
    <3>1. L[a] # << >>
      BY <1>1
    <3> QED
      BY <2>2, <2>3, <3>1 DEF Linked, FirstLinked
  <2>4. CASE i # Len(L[a])
    <3>1. i \in 1 .. Len(L[a]) - 1 /\ i + 1 \in 1 .. Len(L[a])
      BY <1>1, <2>4
    <3> QED
      BY <1>2, <2>2, <3>1 DEF Linked, NeighboursLinked
  <2> QED
    BY <2>3, <2>4
<1> QED
  BY <1>3, <1>4

(* So whatever is found from the root on is in a list.                     *)
LEMMA PreorderListed ==
    ASSUME NEW m \in Nat, NEW h \in Heaps(m), NEW L \in ListsOf(m), Linked(h, m, L)
    PROVE  Preorder(h) \in Seq([cell : Listed(m, L), depth : Nat])
<1> DEFINE C == Listed(m, L)
           R == [cell : C, depth : Nat]
           T == [cell : C \cup {Null}, depth : Nat]
<1>1. PICK from :
         /\ \A n \in 0 .. m + 1, e \in Entries(m) :
                from[n][e] = IF e.cell = Null \/ n = 0 THEN << >>
                             ELSE <<e>> \o from[n - 1][Below(h, e)]
                                       \o from[n - 1][Behind(h, e)]
         /\ Preorder(h) = from[m + 1][[cell |-> h.child[0], depth |-> 0]]
  BY PreorderEquation
<1>2. C \subseteq 1 .. m /\ T \subseteq Entries(m)
  BY DEF Listed, Entries, Pointers
<1>3. \A e \in T : e.cell # Null => e \in R /\ Below(h, e) \in T /\ Behind(h, e) \in T
  <2> SUFFICES ASSUME NEW e \in T, e.cell # Null
               PROVE  e \in R /\ Below(h, e) \in T /\ Behind(h, e) \in T
    OBVIOUS
  <2>1. e \in R /\ e.cell \in C /\ e.depth \in Nat /\ e.depth + 1 \in Nat
    OBVIOUS
  <2>2. e.cell \in 1 .. m
    BY <1>2, <2>1
  <2>3. h.child[e.cell] \in C \cup {Null} /\ h.next[e.cell] \in C \cup {Null}
    <3>1. e.cell \in 0 .. m
      BY <2>2
    <3> QED
      BY <2>1, <3>1, PointersListed
  <2> QED
    BY <2>1, <2>3 DEF Below, Behind
<1>4. [cell |-> h.child[0], depth |-> 0] \in T
  <2>1. h.child[0] \in C \cup {Null}
    BY PointersListed
  <2> QED
    BY <2>1
<1> DEFINE Bad == {n \in 0 .. m + 1 : ~ \A e \in T : from[n][e] \in Seq(R)}
<1> HIDE DEF C, R, T
<1>5. Bad = {}
  <2> SUFFICES ASSUME Bad # {}
               PROVE  FALSE
    OBVIOUS
  <2>1. Min(Bad) \in Bad /\ \A n \in Bad : Min(Bad) <= n
    <3>1. Bad \subseteq Nat /\ Bad # {}
      OBVIOUS
    <3> HIDE DEF Bad
    <3> QED
      BY <3>1, MinIsLeast
  <2> DEFINE n == Min(Bad)
  <2>2. PICK e \in T : from[n][e] \notin Seq(R)
    BY <2>1
  <2>3. n \in 0 .. m + 1
    BY <2>1
  <2>4. from[n][e] = IF e.cell = Null \/ n = 0 THEN << >>
                     ELSE <<e>> \o from[n - 1][Below(h, e)] \o from[n - 1][Behind(h, e)]
    BY <1>1, <1>2, <2>3, Zenon
  <2>5. e.cell # Null /\ n # 0
    <3>1. << >> \in Seq(R)
      OBVIOUS
    <3> QED
      BY <2>2, <2>4, <3>1, Zenon
  <2>6. n - 1 \in 0 .. m + 1 /\ ~ (n <= n - 1)
    <3> HIDE DEF n
    <3> QED
      BY <2>3, <2>5
  <2>7. n - 1 \notin Bad
    BY <2>1, <2>6, Zenon
  <2>8. \A d \in T : from[n - 1][d] \in Seq(R)
    BY <2>6, <2>7, Zenon
  <2> HIDE DEF n, Bad
  <2>9. <<e>> \in Seq(R) /\ from[n - 1][Below(h, e)] \in Seq(R)
        /\ from[n - 1][Behind(h, e)] \in Seq(R)
    BY <1>3, <2>5, <2>8
  <2>10. <<e>> \o from[n - 1][Below(h, e)] \in Seq(R)
    BY <2>9, ConcatProperties
  <2>11. <<e>> \o from[n - 1][Below(h, e)] \o from[n - 1][Behind(h, e)] \in Seq(R)
    BY <2>9, <2>10, ConcatProperties
  <2> QED
    BY <2>2, <2>4, <2>5, <2>11, Zenon
<1>6. m + 1 \in 0 .. m + 1
  OBVIOUS
<1>7. from[m + 1][[cell |-> h.child[0], depth |-> 0]] \in Seq(R)
  BY <1>4, <1>5, <1>6
<1> QED
  BY <1>1, <1>7 DEF R, C

(* A tag that is found is found in a list.                                 *)
LEMMA TagCellListed ==
    ASSUME NEW m \in Nat, NEW h \in Heaps(m), NEW L \in ListsOf(m), Linked(h, m, L), NEW tag
    PROVE  get_tag_cell(h, tag) \in Listed(m, L) \cup {Null}
<1> DEFINE P == Preorder(h)
           R == [cell : Listed(m, L), depth : Nat]
           I == {i \in 1 .. Len(P) : h.tag[P[i].cell].name = tag}
           found == SelectInSeq(P, LAMBDA e : h.tag[e.cell].name = tag)
<1>1. P \in Seq(R)
  BY PreorderListed
<1>2. found = IF I # {} THEN Min(I) ELSE 0
  BY DEF SelectInSeq
<1>3. I \subseteq Nat /\ I \subseteq 1 .. Len(P)
  OBVIOUS
<1>4. get_tag_cell(h, tag) = IF found = 0 THEN Null ELSE P[found].cell
  BY DEF get_tag_cell
<1> HIDE DEF P, I, found
<1>5. CASE I = {}
  BY <1>2, <1>4, <1>5
<1>6. CASE I # {}
  <2>1. Min(I) \in I
    BY <1>3, <1>6, MinIsLeast
  <2>2. found \in 1 .. Len(P)
    BY <1>2, <1>3, <1>6, <2>1
  <2>3. found # 0 /\ P[found] \in R
    <3> HIDE DEF R
    <3> QED
      BY <1>1, <2>2
  <2> QED
    BY <1>4, <2>3
<1> QED
  BY <1>5, <1>6

(* The array and the index found for a tag are the place of a cell.        *)
LEMMA ParentArrayFinds ==
    ASSUME NEW m \in Nat, NEW h \in Heaps(m), NEW L \in ListsOf(m), Linked(h, m, L), NEW tag,
           get_tag_cell(h, tag) # Null
    PROVE  LET found == get_parent_array(h, tag)
               k     == found.index + 1
           IN  /\ found.array \in 0 .. m
               /\ k \in 1 .. Len(L[found.array])
               /\ get_array_item(h, found.array, found.index) = L[found.array][k]
               /\ L[found.array][k] = get_tag_cell(h, tag)
<1> DEFINE c == get_tag_cell(h, tag)
           Holds(a) == Contains(Items(h, a), c)
           array == CHOOSE a \in DOMAIN h.child : Holds(a)
           list == Items(h, array)
           I == {i \in 1 .. Len(list) : list[i] = c}
           place == SelectInSeq(list, LAMBDA x : x = c)
<1>1. \A a \in 0 .. m : Items(h, a) = L[a]
  BY WalkList
<1>2. \E a \in 0 .. m : Holds(a)
  <2>1. c \in Listed(m, L)
    BY TagCellListed
  <2>2. PICK a \in 0 .. m : \E i \in 1 .. Len(L[a]) : L[a][i] = c
    BY <2>1 DEF Listed, Unlisted
  <2>3. Items(h, a) = L[a]
    BY <1>1
  <2>4. Contains(L[a], c)
    BY <2>2 DEF Contains
  <2> QED
    BY <2>3, <2>4
<1>3. array \in 0 .. m /\ Holds(array)
  <2> HIDE DEF Holds
  <2>1. DOMAIN h.child = 0 .. m
    BY HeapCells
  <2> QED
    BY <1>2, <2>1
<1>4. get_parent_array(h, tag) = [array |-> array, index |-> place - 1]
  BY Zenon DEF get_parent_array
<1>5. place = IF I # {} THEN Min(I) ELSE 0
  BY DEF SelectInSeq
<1>6. I # {} /\ I \subseteq 1 .. Len(list) /\ I \subseteq Nat
  <2>1. Contains(list, c)
    BY <1>3
  <2>2. \E i \in 1 .. Len(list) : list[i] = c
    BY <2>1 DEF Contains
  <2> HIDE DEF c, list
  <2> QED
    BY <2>2
<1> HIDE DEF c, Holds, array, place, I, list
<1>7. place \in 1 .. Len(list)
  BY <1>5, <1>6, MinIsLeast
<1>8. list = L[array]
  BY <1>1, <1>3 DEF list
<1>12. list[place] = c
  <2>1. place \in I
    BY <1>5, <1>6, MinIsLeast
  <2> QED
    BY <2>1 DEF I
<1>9. Len(list) \in Nat
  BY <1>3, <1>8, ListElements
<1>10. place - 1 + 1 = place
  BY <1>7, <1>9
<1>11. get_array_item(h, array, place - 1) = L[array][place]
  BY <1>8, <1>10, Zenon DEF get_array_item, list
<1> QED
  BY <1>3, <1>4, <1>7, <1>8, <1>10, <1>11, <1>12 DEF c

(* What is printed is a tree.                                              *)
LEMMA PrintedTree ==
    ASSUME NEW m \in Nat, NEW h \in Heaps(m), NEW L \in ListsOf(m), Linked(h, m, L)
    PROVE  cJSON_Print(h) \in Tree
<1> DEFINE P == Preorder(h)
           R == [cell : Listed(m, L), depth : Nat]
           n == Len(P)
           At(i) == new_tag(h.tag[P[i].cell].name, h.tag[P[i].cell].assignable, P[i].depth)
<1>1. P \in Seq(R)
  BY PreorderListed
<1>2. Listed(m, L) \subseteq 1 .. m
  BY DEF Listed
<1>3. cJSON_Print(h) = [i \in 1 .. n |-> At(i)] /\ n \in Nat
  <2> HIDE DEF P
  <2> QED
    BY <1>1 DEF cJSON_Print, P
<1>4. ASSUME NEW i \in 1 .. n
      PROVE  At(i) \in Tag
  <2>1. P[i] \in R
    <3> HIDE DEF P, R
    <3> QED
      BY <1>1
  <2>2. P[i].cell \in 1 .. m /\ P[i].depth \in Nat
    <3> HIDE DEF P
    <3> QED
      BY <1>2, <2>1
  <2>3. h.tag[P[i].cell] \in [name : Name, assignable : BOOLEAN]
    BY <2>2 DEF Heaps
  <2> QED
    BY <2>2, <2>3 DEF new_tag, Tag
<1> HIDE DEF n, At
<1> QED
  BY <1>3, <1>4 DEF Tree

(***************************************************************************)
(* Subtrees.                                                               *)
(***************************************************************************)

(* With a cell, T has those in its list.                                   *)
Closed(m, L, T) == \A a \in T : \A i \in 1 .. Len(L[a]) : L[a][i] \in T

(* x and what is below it.                                                 *)
Subtree(m, L, x) ==
    {y \in 1 .. m : \A T \in SUBSET (1 .. m) : x \in T /\ Closed(m, L, T) => y \in T}

(* The cells of the list of a from the k-th on, and what is below them.    *)
SubtreesFrom(m, L, a, k) ==
    {y \in 1 .. m : \E j \in 1 .. Len(L[a]) : j >= k /\ y \in Subtree(m, L, L[a][j])}

(* A subtree is the least closed set with its root.                        *)
LEMMA SubtreeClosed ==
    ASSUME NEW m \in Nat, NEW L \in ListsOf(m), NEW x \in 1 .. m
    PROVE  /\ Subtree(m, L, x) \subseteq 1 .. m
           /\ x \in Subtree(m, L, x)
           /\ Closed(m, L, Subtree(m, L, x))
           /\ \A T \in SUBSET (1 .. m) :
                  x \in T /\ Closed(m, L, T) => Subtree(m, L, x) \subseteq T
<1>1. \A a \in 1 .. m : \A i \in 1 .. Len(L[a]) : L[a][i] \in 1 .. m
  BY ListElements
<1>2. ASSUME NEW a \in Subtree(m, L, x), NEW i \in 1 .. Len(L[a])
      PROVE  L[a][i] \in Subtree(m, L, x)
  <2>1. a \in 1 .. m /\ L[a][i] \in 1 .. m
    BY <1>1 DEF Subtree
  <2>2. ASSUME NEW T \in SUBSET (1 .. m), x \in T, Closed(m, L, T)
        PROVE  L[a][i] \in T
    <3>1. a \in T
      BY <2>2, Zenon DEF Subtree
    <3> QED
      BY <2>2, <3>1, Zenon DEF Closed
  <2> QED
    BY <2>1, <2>2, Zenon DEF Subtree
<1>3. Closed(m, L, Subtree(m, L, x))
  BY <1>2, Zenon DEF Closed
<1>4. Subtree(m, L, x) \subseteq 1 .. m /\ x \in Subtree(m, L, x)
  BY Zenon DEF Subtree
<1>5. ASSUME NEW T \in SUBSET (1 .. m), x \in T, Closed(m, L, T)
      PROVE  Subtree(m, L, x) \subseteq T
  BY <1>5, Zenon DEF Subtree
<1> QED
  BY <1>3, <1>4, <1>5

(* A subtree is its root and the subtrees of the list of the root.         *)
LEMMA SubtreeSplits ==
    ASSUME NEW m \in Nat, NEW L \in ListsOf(m), ParentsFirst(m, L), NEW x \in 1 .. m
    PROVE  /\ Subtree(m, L, x) = {x} \cup SubtreesFrom(m, L, x, 1)
           /\ x \notin SubtreesFrom(m, L, x, 1)
           /\ \A y \in Subtree(m, L, x) : x <= y
<1> DEFINE S(y) == Subtree(m, L, y)
           F == SubtreesFrom(m, L, x, 1)
           U == {x} \cup F
<1>1. \A a \in 0 .. m : \A i \in 1 .. Len(L[a]) : L[a][i] \in 1 .. m /\ a < L[a][i]
  BY ListElements DEF ParentsFirst
<1>2. x \in 0 .. m
  OBVIOUS
<1>3. F = {y \in 1 .. m : \E j \in 1 .. Len(L[x]) : y \in S(L[x][j])}
  BY DEF SubtreesFrom
<1>4. \A y \in 1 .. m : /\ S(y) \subseteq 1 .. m
                        /\ y \in S(y)
                        /\ Closed(m, L, S(y))
                        /\ \A T \in SUBSET (1 .. m) :
                               y \in T /\ Closed(m, L, T) => S(y) \subseteq T
  BY SubtreeClosed, Zenon
<1> HIDE DEF S, F
<1>5. U \in SUBSET (1 .. m)
  BY <1>3
<1>6. Closed(m, L, U)
  <2>1. ASSUME NEW i \in 1 .. Len(L[x])
        PROVE  L[x][i] \in U
    BY <1>1, <1>2, <1>3, <1>4
  <2>2. ASSUME NEW a \in F, NEW i \in 1 .. Len(L[a])
        PROVE  L[a][i] \in U
    <3>1. PICK j \in 1 .. Len(L[x]) : a \in S(L[x][j])
      BY <1>3
    <3>2. L[a][i] \in S(L[x][j]) /\ S(L[x][j]) \subseteq 1 .. m
      BY <1>1, <1>2, <1>4, <3>1 DEF Closed
    <3> QED
      BY <1>3, <3>2
  <2> QED
    BY <2>1, <2>2 DEF Closed
<1>7. S(x) \subseteq U
  BY <1>4, <1>5, <1>6
<1>8. U \subseteq S(x)
  <2>1. ASSUME NEW j \in 1 .. Len(L[x])
        PROVE  S(L[x][j]) \subseteq S(x)
    <3>1. L[x][j] \in S(x)
      BY <1>4 DEF Closed
    <3> QED
      BY <1>1, <1>2, <1>4, <3>1
  <2> QED
    BY <1>3, <1>4, <2>1
<1>9. ASSUME NEW y \in 1 .. m
      PROVE  \A z \in S(y) : y <= z
  <2> DEFINE T == {z \in 1 .. m : y <= z}
  <2>1. T \in SUBSET (1 .. m) /\ y \in T
    OBVIOUS
  <2>2. Closed(m, L, T)
    <3> SUFFICES ASSUME NEW a \in T, NEW i \in 1 .. Len(L[a])
                 PROVE  L[a][i] \in T
      BY DEF Closed
    <3>1. a \in 0 .. m /\ y <= a /\ a \in Nat /\ y \in Nat
      OBVIOUS
    <3>2. L[a][i] \in 1 .. m /\ a < L[a][i]
      BY <1>1, <3>1
    <3>3. L[a][i] \in Nat
      BY <3>2
    <3>4. y <= L[a][i]
      BY <3>1, <3>2, <3>3
    <3> QED
      BY <3>2, <3>4
  <2>3. S(y) \subseteq T
    BY <1>4, <2>1, <2>2
  <2> QED
    BY <2>3
<1>10. x \notin F
  <2> SUFFICES ASSUME x \in F
               PROVE  FALSE
    OBVIOUS
  <2>1. PICK j \in 1 .. Len(L[x]) : x \in S(L[x][j])
    BY <1>3
  <2>2. L[x][j] \in 1 .. m /\ x < L[x][j] /\ L[x][j] <= x
    BY <1>1, <1>2, <1>9, <2>1
  <2> QED
    BY <2>2
<1> QED
  BY <1>7, <1>8, <1>9, <1>10 DEF S, F, U

(* What is below x is in the list of a cell of its subtree.                *)
LEMMA SubtreeParents ==
    ASSUME NEW m \in Nat, NEW L \in ListsOf(m), NEW x \in 1 .. m,
           NEW y \in Subtree(m, L, x), y # x
    PROVE  \E a \in Subtree(m, L, x) : \E i \in 1 .. Len(L[a]) : L[a][i] = y
<1> DEFINE S == Subtree(m, L, x)
           T == {z \in S : z = x \/ \E a \in S : \E i \in 1 .. Len(L[a]) : L[a][i] = z}
<1>1. /\ S \subseteq 1 .. m /\ x \in S /\ Closed(m, L, S)
      /\ T \in SUBSET (1 .. m) /\ x \in T /\ Closed(m, L, T) => S \subseteq T
  BY SubtreeClosed
<1> HIDE DEF S
<1>2. T \in SUBSET (1 .. m) /\ x \in T
  BY <1>1
<1>3. Closed(m, L, T)
  BY <1>1 DEF Closed
<1>4. y \in T
  BY <1>1, <1>2, <1>3 DEF S
<1> QED
  BY <1>4 DEF S

(* The subtrees of two cells of a list have nothing in common.             *)
LEMMA SubtreesDisjoint ==
    ASSUME NEW m \in Nat, NEW L \in ListsOf(m), Disjoint(m, L), ParentsFirst(m, L),
           NEW a \in 0 .. m, NEW j \in 1 .. Len(L[a]), NEW k \in 1 .. Len(L[a]), j # k,
           NEW y \in Subtree(m, L, L[a][j])
    PROVE  y \notin Subtree(m, L, L[a][k])
<1> DEFINE u == L[a][j]
           v == L[a][k]
           Both == Subtree(m, L, u) \cap Subtree(m, L, v)
<1>1. u \in 1 .. m /\ v \in 1 .. m /\ u # v /\ a < u /\ a < v
  <2>1. u \in 1 .. m /\ v \in 1 .. m
    BY ListElements
  <2> QED
    BY <2>1 DEF Disjoint, ParentsFirst
<1>2. SUFFICES ASSUME y \in Both
               PROVE  FALSE
  OBVIOUS
<1>3. /\ Subtree(m, L, u) \subseteq 1 .. m /\ Subtree(m, L, v) \subseteq 1 .. m
      /\ \A z \in Subtree(m, L, u) : u <= z
      /\ \A z \in Subtree(m, L, v) : v <= z
  BY <1>1, SubtreeClosed, SubtreeSplits
<1> DEFINE z == Min(Both)
<1>4. z \in Both /\ \A x \in Both : z <= x
  <2>1. Both \subseteq Nat /\ Both # {}
    BY <1>2, <1>3
  <2> HIDE DEF Both
  <2> QED
    BY <2>1, MinIsLeast
<1> HIDE DEF z, u, v
<1>5. z # u
  <2> SUFFICES ASSUME z = u
               PROVE  FALSE
    OBVIOUS
  <2>1. u \in Subtree(m, L, v)
    BY <1>4
  <2>2. PICK b \in Subtree(m, L, v) : \E i \in 1 .. Len(L[b]) : L[b][i] = u
    BY <1>1, <2>1, SubtreeParents
  <2>3. b \in 1 .. m /\ v <= b
    BY <1>3
  <2>4. b \in 0 .. m
    BY <2>3
  <2>5. b = a
    BY <2>2, <2>4 DEF Disjoint, u
  <2>6. v \in Nat /\ a \in Nat
    BY <1>1
  <2> QED
    BY <1>1, <2>3, <2>5, <2>6
<1>6. z # v
  <2> SUFFICES ASSUME z = v
               PROVE  FALSE
    OBVIOUS
  <2>1. v \in Subtree(m, L, u)
    BY <1>4
  <2>2. PICK b \in Subtree(m, L, u) : \E i \in 1 .. Len(L[b]) : L[b][i] = v
    BY <1>1, <2>1, SubtreeParents
  <2>3. b \in 1 .. m /\ u <= b
    BY <1>3
  <2>4. b \in 0 .. m
    BY <2>3
  <2>5. b = a
    BY <2>2, <2>4 DEF Disjoint, v
  <2>6. u \in Nat /\ a \in Nat
    BY <1>1
  <2> QED
    BY <1>1, <2>3, <2>5, <2>6
<1>7. PICK b \in Subtree(m, L, u) : \E i \in 1 .. Len(L[b]) : L[b][i] = z
  BY <1>1, <1>4, <1>5, SubtreeParents
<1>8. PICK c \in Subtree(m, L, v) : \E i \in 1 .. Len(L[c]) : L[c][i] = z
  BY <1>1, <1>4, <1>6, SubtreeParents
<1>9. b \in 0 .. m /\ c \in 0 .. m /\ b \in Nat /\ b \in 1 .. m
  BY <1>3
<1>10. b = c
  <2>1. PICK i \in 1 .. Len(L[b]) : L[b][i] = z
    BY <1>7
  <2>2. PICK n \in 1 .. Len(L[c]) : L[c][n] = z
    BY <1>8
  <2>3. L[b][i] = L[c][n]
    BY <2>1, <2>2
  <2> QED
    BY <1>9, <2>3 DEF Disjoint
<1>11. z \in 1 .. m
  BY <1>3, <1>4
<1>12. b < z
  BY <1>7, <1>9 DEF ParentsFirst
<1>13. z <= b
  BY <1>4, <1>10
<1> QED
  BY <1>9, <1>11, <1>12, <1>13

(* From a cell of a list on: the subtree of this cell, and the next ones.  *)
LEMMA SubtreesFromSplits ==
    ASSUME NEW m \in Nat, NEW L \in ListsOf(m), Disjoint(m, L), ParentsFirst(m, L),
           NEW a \in 0 .. m, NEW k \in 1 .. Len(L[a])
    PROVE  LET S == Subtree(m, L, L[a][k])
               F == SubtreesFrom(m, L, a, k + 1)
           IN  /\ SubtreesFrom(m, L, a, k) = S \cup F
               /\ S \cap F = {}
               /\ k = Len(L[a]) => F = {}
<1> DEFINE S(j) == Subtree(m, L, L[a][j])
           F == SubtreesFrom(m, L, a, k + 1)
<1>1. Len(L[a]) \in Nat /\ \A i \in 1 .. Len(L[a]) : L[a][i] \in 1 .. m
  BY ListElements
<1>2. \A j \in 1 .. Len(L[a]) : S(j) \subseteq 1 .. m
  BY <1>1, SubtreeClosed
<1>3. \A i, j \in 1 .. Len(L[a]) : i # j => S(i) \cap S(j) = {}
  BY SubtreesDisjoint
<1>4. /\ F = {y \in 1 .. m : \E j \in 1 .. Len(L[a]) : j >= k + 1 /\ y \in S(j)}
      /\ SubtreesFrom(m, L, a, k) = {y \in 1 .. m : \E j \in 1 .. Len(L[a]) : j >= k /\ y \in S(j)}
  BY DEF SubtreesFrom
<1> HIDE DEF S, F
<1>5. \A j \in 1 .. Len(L[a]) : j >= k <=> j = k \/ j >= k + 1
  BY <1>1
<1>6. SubtreesFrom(m, L, a, k) = S(k) \cup F
  BY <1>2, <1>4, <1>5
<1>7. S(k) \cap F = {}
  <2> SUFFICES ASSUME NEW y \in S(k), y \in F
               PROVE  FALSE
    OBVIOUS
  <2>1. PICK j \in 1 .. Len(L[a]) : j >= k + 1 /\ y \in S(j)
    BY <1>4
  <2>2. j # k
    BY <1>1, <2>1
  <2> QED
    BY <1>3, <2>1, <2>2
<1>8. k = Len(L[a]) => F = {}
  BY <1>1, <1>4
<1> QED
  BY <1>6, <1>7, <1>8 DEF S, F

(* No list with cells is out of reach: then every listed cell is below the *)
(* root array.                                                             *)
LEMMA SubtreesOfRoot ==
    ASSUME NEW m \in Nat, NEW L \in ListsOf(m), Disjoint(m, L), ParentsFirst(m, L),
           \A a \in 1 .. m : L[a] # << >> => a \in Listed(m, L)
    PROVE  SubtreesFrom(m, L, 0, 1) = Listed(m, L)
<1> DEFINE S(j) == Subtree(m, L, L[0][j])
           F == SubtreesFrom(m, L, 0, 1)
           C == Listed(m, L)
           Bad == C \ F
<1>1. /\ \A a \in 0 .. m : \A i \in 1 .. Len(L[a]) : L[a][i] \in 1 .. m /\ a < L[a][i]
      /\ \A a \in 0 .. m : L[a] = << >> <=> Len(L[a]) = 0
  BY ListElements DEF ParentsFirst
<1>2. 0 \in 0 .. m
  OBVIOUS
<1>3. \A j \in 1 .. Len(L[0]) : S(j) \subseteq 1 .. m /\ L[0][j] \in S(j) /\ Closed(m, L, S(j))
  BY <1>1, <1>2, SubtreeClosed, Zenon
<1>4. F = {y \in 1 .. m : \E j \in 1 .. Len(L[0]) : y \in S(j)}
  BY DEF SubtreesFrom
<1>5. C \subseteq 1 .. m /\ \A c \in C : \E a \in 0 .. m : \E i \in 1 .. Len(L[a]) : L[a][i] = c
  BY DEF Listed, Unlisted
<1>6. \A a \in 0 .. m : \A i \in 1 .. Len(L[a]) : L[a][i] \in C
  BY <1>1 DEF Listed, Unlisted
<1>7. F \subseteq C
  <2> SUFFICES ASSUME NEW y \in F
               PROVE  y \in C
    OBVIOUS
  <2>1. PICK j \in 1 .. Len(L[0]) : y \in S(j)
    BY <1>4
  <2>2. CASE y = L[0][j]
    BY <1>2, <1>6, <2>2
  <2>3. CASE y # L[0][j]
    <3>1. PICK a \in S(j) : \E i \in 1 .. Len(L[a]) : L[a][i] = y
      BY <1>1, <1>2, <2>1, <2>3, SubtreeParents
    <3>2. a \in 1 .. m
      BY <1>3, <3>1
    <3>3. a \in 0 .. m
      BY <3>2
    <3> QED
      BY <1>6, <3>1, <3>3
  <2> QED
    BY <2>2, <2>3
<1> HIDE DEF S, F, C
<1>8. Bad = {}
  <2> SUFFICES ASSUME Bad # {}
               PROVE  FALSE
    OBVIOUS
  <2> DEFINE c == Min(Bad)
  <2>1. c \in Bad /\ \A x \in Bad : c <= x
    <3>1. C \subseteq Nat
      BY <1>5
    <3>2. Bad \subseteq Nat /\ Bad # {}
      BY <3>1
    <3> HIDE DEF Bad
    <3> QED
      BY <3>2, MinIsLeast
  <2> HIDE DEF c
  <2>2. c \in C /\ c \notin F /\ c \in 1 .. m
    BY <1>5, <2>1
  <2>3. PICK a \in 0 .. m : \E i \in 1 .. Len(L[a]) : L[a][i] = c
    BY <1>5, <2>2
  <2>4. PICK i \in 1 .. Len(L[a]) : L[a][i] = c
    BY <2>3
  <2>5. CASE a = 0
    BY <1>3, <1>4, <2>2, <2>4, <2>5
  <2>6. CASE a # 0
    <3>1. a \in 1 .. m /\ a < c
      BY <1>1, <2>4, <2>6
    <3>2. L[a] # << >>
      BY <1>1, <2>4
    <3>3. a \in C
      BY <3>1, <3>2 DEF C
    <3>4. ~ (c <= a)
      BY <2>2, <3>1
    <3>5. a \in F
      BY <2>1, <3>3, <3>4
    <3>6. PICK j \in 1 .. Len(L[0]) : a \in S(j)
      BY <1>4, <3>5
    <3>7. c \in S(j)
      BY <1>3, <2>4, <3>6 DEF Closed
    <3> QED
      BY <1>4, <2>2, <3>6, <3>7
  <2> QED
    BY <2>5, <2>6
<1> QED
  BY <1>7, <1>8 DEF F, C

(***************************************************************************)
(* Freeing.                                                                *)
(***************************************************************************)

(* Two sequences without repetitions and common elements, together.        *)
LEMMA ConcatInjective ==
    ASSUME NEW m, NEW s \in Seq(1 .. m), NEW t \in Seq(1 .. m),
           IsInjective(s), IsInjective(t), Range(s) \cap Range(t) = {}
    PROVE  /\ s \o t \in Seq(1 .. m)
           /\ IsInjective(s \o t)
           /\ Range(s \o t) = Range(s) \cup Range(t)
<1> DEFINE r == s \o t
           p == Len(s)
           q == Len(t)
<1>1. p \in Nat /\ q \in Nat /\ DOMAIN s = 1 .. p /\ DOMAIN t = 1 .. q
  OBVIOUS
<1>2. /\ r \in Seq(1 .. m) /\ Len(r) = p + q
      /\ \A i \in 1 .. p + q : r[i] = IF i <= p THEN s[i] ELSE t[i - p]
  BY ConcatProperties
<1> HIDE DEF r, p, q
<1>3. DOMAIN r = 1 .. p + q
  BY <1>1, <1>2
<1>4. \A i \in 1 .. p + q : \/ i \in 1 .. p /\ r[i] = s[i]
                            \/ i - p \in 1 .. q /\ r[i] = t[i - p]
  BY <1>1, <1>2
<1>5. \A i \in 1 .. p : i \in 1 .. p + q /\ r[i] = s[i]
  BY <1>1, <1>2
<1>6. \A i \in 1 .. q : i + p \in 1 .. p + q /\ r[i + p] = t[i]
  <2> SUFFICES ASSUME NEW i \in 1 .. q
               PROVE  i + p \in 1 .. p + q /\ r[i + p] = t[i]
    OBVIOUS
  <2>1. i + p \in 1 .. p + q /\ ~ (i + p <= p) /\ (i + p) - p = i
    BY <1>1
  <2> QED
    BY <1>2, <2>1
<1>7. /\ Range(r) = {r[i] : i \in 1 .. p + q}
      /\ Range(s) = {s[i] : i \in 1 .. p}
      /\ Range(t) = {t[i] : i \in 1 .. q}
  BY <1>1, <1>3 DEF Range
<1>8. Range(r) = Range(s) \cup Range(t)
  <2>1. ASSUME NEW i \in 1 .. p + q
        PROVE  r[i] \in Range(s) \cup Range(t)
    BY <1>4, <1>7
  <2>2. ASSUME NEW i \in 1 .. p
        PROVE  s[i] \in Range(r)
    BY <1>5, <1>7
  <2>3. ASSUME NEW i \in 1 .. q
        PROVE  t[i] \in Range(r)
    BY <1>6, <1>7
  <2> QED
    BY <1>7, <2>1, <2>2, <2>3
<1>9. ASSUME NEW i \in 1 .. p + q, NEW j \in 1 .. p + q, r[i] = r[j]
      PROVE  i = j
  <2>1. CASE i \in 1 .. p /\ j \in 1 .. p
    BY <1>1, <1>5, <1>9, <2>1 DEF IsInjective
  <2>2. CASE i \notin 1 .. p /\ j \notin 1 .. p
    <3>1. i - p \in 1 .. q /\ j - p \in 1 .. q /\ t[i - p] = t[j - p]
      BY <1>4, <1>9, <2>2
    <3>2. i - p = j - p
      BY <1>1, <3>1 DEF IsInjective
    <3> QED
      BY <1>1, <3>2
  <2>3. CASE i \in 1 .. p /\ j \notin 1 .. p
    BY <1>4, <1>5, <1>7, <1>9, <2>3
  <2>4. CASE i \notin 1 .. p /\ j \in 1 .. p
    BY <1>4, <1>5, <1>7, <1>9, <2>4
  <2> QED
    BY <2>1, <2>2, <2>3, <2>4
<1>10. IsInjective(r)
  BY <1>3, <1>9 DEF IsInjective
<1> QED
  BY <1>2, <1>8, <1>10 DEF r

(* s lists the cells of S, each once.                                      *)
Frees(m, s, S) == s \in Seq(1 .. m) /\ IsInjective(s) /\ Range(s) = S

(* What is freed in two goes.                                              *)
LEMMA ConcatFrees ==
    ASSUME NEW m, NEW s, NEW S, Frees(m, s, S), NEW t, NEW T, Frees(m, t, T), S \cap T = {}
    PROVE  Frees(m, s \o t, S \cup T)
<1>1. /\ s \in Seq(1 .. m) /\ IsInjective(s) /\ Range(s) = S
      /\ t \in Seq(1 .. m) /\ IsInjective(t) /\ Range(t) = T
  BY DEF Frees
<1>2. Range(s) \cap Range(t) = {}
  BY <1>1
<1>3. /\ s \o t \in Seq(1 .. m)
      /\ IsInjective(s \o t)
      /\ Range(s \o t) = Range(s) \cup Range(t)
  BY <1>1, <1>2, ConcatInjective
<1> QED
  BY <1>1, <1>3, Zenon DEF Frees

(* The cell at k in the list of a, or the end of this list.                *)
PointerAt(L, a, k) == IF k = Len(L[a]) + 1 THEN Null ELSE L[a][k]

(* child and next, read off the lists.                                     *)
LEMMA LinkedPointers ==
    ASSUME NEW m \in Nat, NEW h \in Heaps(m), NEW L \in ListsOf(m), Linked(h, m, L),
           NEW a \in 0 .. m
    PROVE  /\ h.child[a] = PointerAt(L, a, 1)
           /\ \A k \in 1 .. Len(L[a]) : h.next[L[a][k]] = PointerAt(L, a, k + 1)
<1>1. Len(L[a]) \in Nat /\ (L[a] = << >> <=> Len(L[a]) = 0)
  BY ListElements
<1>2. h.child[a] = PointerAt(L, a, 1)
  BY <1>1 DEF Linked, FirstLinked, PointerAt
<1>3. ASSUME NEW k \in 1 .. Len(L[a])
      PROVE  h.next[L[a][k]] = PointerAt(L, a, k + 1)
  <2>1. CASE k = Len(L[a])
    BY <1>1, <2>1 DEF Linked, FirstLinked, PointerAt
  <2>2. CASE k # Len(L[a])
    <3>1. k \in 1 .. Len(L[a]) - 1 /\ k + 1 # Len(L[a]) + 1
      BY <1>1, <2>2
    <3> QED
      BY <3>1 DEF Linked, NeighboursLinked, PointerAt
  <2> QED
    BY <2>1, <2>2
<1> QED
  BY <1>2, <1>3

(* A part of a set without one of its elements is smaller.                 *)
LEMMA SmallerSubset ==
    ASSUME NEW m \in Nat, NEW T, T \subseteq 1 .. m, NEW x \in T, NEW U, U \subseteq T \ {x},
           NEW n \in Nat, Cardinality(T) <= n
    PROVE  Cardinality(U) <= n - 1
<1>1. IsFiniteSet(1 .. m)
  BY FS_Interval
<1>2. IsFiniteSet(T)
  BY <1>1, FS_Subset
<1>3. IsFiniteSet(T \ {x}) /\ Cardinality(T \ {x}) = Cardinality(T) - 1
  BY <1>2, FS_RemoveElement
<1>4. IsFiniteSet(U) /\ Cardinality(U) <= Cardinality(T \ {x})
  BY <1>3, FS_Subset
<1>5. Cardinality(T) \in Nat /\ Cardinality(U) \in Nat
  BY <1>2, <1>4, FS_CardinalityType
<1> QED
  BY <1>3, <1>4, <1>5

(* cJSON_Delete, given the first cell of the root array, frees each listed *)
(* cell once.                                                              *)
LEMMA DeleteFrees ==
    ASSUME NEW m \in Nat, NEW h \in Heaps(m), NEW L \in ListsOf(m), Linked(h, m, L),
           ParentsFirst(m, L),
           \A a \in 1 .. m : L[a] # << >> => a \in Listed(m, L)
    PROVE  Frees(m, cJSON_Delete(h, h.child[0]), Listed(m, L))
<1> DEFINE F(a, k) == SubtreesFrom(m, L, a, k)
           P(a, k) == PointerAt(L, a, k)
<1>1. PICK from :
         /\ \A n \in 0 .. m + 1, x \in Pointers(m) :
                from[n][x] = IF x = Null \/ n = 0 THEN << >>
                             ELSE from[n - 1][h.child[x]] \o <<x>> \o from[n - 1][h.next[x]]
         /\ \A c \in Pointers(m) : cJSON_Delete(h, c) = from[m + 1][c]
  BY DeleteEquation
<1>2. /\ \A a \in 0 .. m : /\ Len(L[a]) \in Nat
                           /\ \A k \in 1 .. Len(L[a]) : L[a][k] \in 1 .. m
                           /\ h.child[a] = P(a, 1)
                           /\ \A k \in 1 .. Len(L[a]) : h.next[L[a][k]] = P(a, k + 1)
  BY ListElements, LinkedPointers
<1>3. Null \notin 1 .. m /\ Null \in Pointers(m) /\ 1 .. m \subseteq Pointers(m)
  BY NullAssumption DEF Pointers
<1>4. \A a, k : F(a, k) \subseteq 1 .. m
  BY DEF SubtreesFrom
<1>5. ASSUME NEW a \in 0 .. m
      PROVE  P(a, Len(L[a]) + 1) = Null /\ F(a, Len(L[a]) + 1) = {}
  <2>1. \A j \in 1 .. Len(L[a]) : ~ (j >= Len(L[a]) + 1)
    BY <1>2
  <2> QED
    BY <2>1 DEF SubtreesFrom, PointerAt
<1>6. ASSUME NEW a \in 0 .. m, NEW k \in 1 .. Len(L[a])
      PROVE  LET x == L[a][k]
             IN  /\ P(a, k) = x
                 /\ F(a, k) = F(x, 1) \cup {x} \cup F(a, k + 1)
                 /\ x \notin F(x, 1) /\ x \notin F(a, k + 1)
                 /\ F(x, 1) \cap F(a, k + 1) = {}
  <2> DEFINE x == L[a][k]
  <2>1. x \in 1 .. m /\ k # Len(L[a]) + 1
    BY <1>2
  <2>2. /\ F(a, k) = Subtree(m, L, x) \cup F(a, k + 1)
        /\ Subtree(m, L, x) \cap F(a, k + 1) = {}
    BY SubtreesFromSplits DEF Linked
  <2>3. Subtree(m, L, x) = {x} \cup F(x, 1) /\ x \notin F(x, 1)
    BY <2>1, SubtreeSplits
  <2>4. P(a, k) = x
    BY <2>1 DEF PointerAt
  <2> HIDE DEF F, P, x
  <2>5. F(a, k) = F(x, 1) \cup {x} \cup F(a, k + 1)
    BY <2>2, <2>3
  <2>6. x \notin F(a, k + 1) /\ F(x, 1) \cap F(a, k + 1) = {}
    BY <2>2, <2>3
  <2> QED
    BY <2>3, <2>4, <2>5, <2>6 DEF x
<1> DEFINE Good(n) == \A a \in 0 .. m : \A k \in 1 .. Len(L[a]) + 1 :
                          Cardinality(F(a, k)) <= n => Frees(m, from[n][P(a, k)], F(a, k))
           Bad == {n \in 0 .. m + 1 : ~ Good(n)}
<1> HIDE DEF F, P
<1>7. Frees(m, << >>, {})
  <2>1. << >> \in Seq(1 .. m) /\ DOMAIN << >> = {}
    OBVIOUS
  <2> QED
    BY <2>1 DEF Frees, IsInjective, Range
<1>8. Bad = {}
  <2> SUFFICES ASSUME Bad # {}
               PROVE  FALSE
    OBVIOUS
  <2> DEFINE n == Min(Bad)
  <2>1. n \in Bad /\ \A i \in Bad : n <= i
    <3>1. Bad \subseteq Nat /\ Bad # {}
      OBVIOUS
    <3> HIDE DEF Bad
    <3> QED
      BY <3>1, MinIsLeast
  <2>2. n \in 0 .. m + 1 /\ ~ Good(n)
    BY <2>1
  <2> HIDE DEF n
  <2>3. PICK a \in 0 .. m : \E k \in 1 .. Len(L[a]) + 1 :
                /\ Cardinality(F(a, k)) <= n
                /\ ~ Frees(m, from[n][P(a, k)], F(a, k))
    BY <2>2
  <2>4. PICK k \in 1 .. Len(L[a]) + 1 : /\ Cardinality(F(a, k)) <= n
                                        /\ ~ Frees(m, from[n][P(a, k)], F(a, k))
    BY <2>3
  <2>5. k # Len(L[a]) + 1
    <3> SUFFICES ASSUME k = Len(L[a]) + 1
                 PROVE  FALSE
      OBVIOUS
    <3>1. P(a, k) = Null /\ F(a, k) = {}
      BY <1>5
    <3>2. from[n][Null] = << >>
      BY <1>1, <1>3, <2>2, Zenon
    <3> QED
      BY <1>7, <2>4, <3>1, <3>2, Zenon
  <2>6. k \in 1 .. Len(L[a]) /\ k + 1 \in 1 .. Len(L[a]) + 1
    BY <1>2, <2>5, SMTT(20)
  <2> DEFINE x == L[a][k]
  <2>7. /\ P(a, k) = x
        /\ F(a, k) = F(x, 1) \cup {x} \cup F(a, k + 1)
        /\ x \notin F(x, 1) /\ x \notin F(a, k + 1)
        /\ F(x, 1) \cap F(a, k + 1) = {}
    BY <1>6, <2>6, Zenon
  <2>8. /\ x \in 1 .. m /\ x \in 0 .. m
        /\ h.child[x] = P(x, 1) /\ h.next[x] = P(a, k + 1)
        /\ 1 \in 1 .. Len(L[x]) + 1
    <3>1. x \in 1 .. m
      BY <1>2, <2>6
    <3>2. x \in 0 .. m
      BY <3>1
    <3>3. h.child[x] = P(x, 1) /\ h.next[x] = P(a, k + 1)
      BY <1>2, <2>6, <3>2
    <3>4. Len(L[x]) \in Nat
      BY <1>2, <3>2
    <3>5. 1 \in 1 .. Len(L[x]) + 1
      BY <3>4
    <3> QED
      BY <3>1, <3>2, <3>3, <3>5
  <2> HIDE DEF x
  <2>9. n # 0
    <3> SUFFICES ASSUME n = 0
                 PROVE  FALSE
      OBVIOUS
    <3>1. /\ F(a, k) \subseteq 1 .. m /\ x \in F(a, k) /\ {} \subseteq F(a, k) \ {x}
          /\ Cardinality(F(a, k)) <= 0
      BY <1>4, <2>4, <2>7
    <3>2. Cardinality({}) <= 0 - 1
      BY <3>1, SmallerSubset
    <3> QED
      BY <3>2, FS_EmptySet
  <2>10. n - 1 \in 0 .. m + 1 /\ n \in Nat /\ ~ (n <= n - 1)
    BY <2>2, <2>9
  <2>11. Good(n - 1)
    BY <2>1, <2>10
  <2>12. Cardinality(F(x, 1)) <= n - 1 /\ Cardinality(F(a, k + 1)) <= n - 1
    <3>1. /\ F(a, k) \subseteq 1 .. m /\ x \in F(a, k)
          /\ F(x, 1) \subseteq F(a, k) \ {x} /\ F(a, k + 1) \subseteq F(a, k) \ {x}
      BY <1>4, <2>7
    <3> QED
      BY <2>4, <2>10, <3>1, SmallerSubset
  <2> DEFINE s == from[n - 1][h.child[x]]
             t == from[n - 1][h.next[x]]
  <2>13. Frees(m, s, F(x, 1)) /\ Frees(m, t, F(a, k + 1))
    BY <2>6, <2>8, <2>11, <2>12
  <2>14. from[n][x] = s \o <<x>> \o t
    <3>1. x \in Pointers(m) /\ x # Null
      BY <1>3, <2>8
    <3> QED
      BY <1>1, <2>2, <2>9, <3>1, Zenon
  <2> HIDE DEF s, t, Bad, Good
  <2>15. Frees(m, <<x>>, {x})
    <3>1. <<x>> \in Seq(1 .. m) /\ DOMAIN <<x>> = {1} /\ <<x>>[1] = x
      BY <2>8
    <3>2. Range(<<x>>) = {x}
      BY <3>1 DEF Range
    <3>3. IsInjective(<<x>>)
      BY <3>1 DEF IsInjective
    <3> QED
      BY <3>1, <3>2, <3>3 DEF Frees
  <2>16. Frees(m, s \o <<x>>, F(x, 1) \cup {x})
    <3>1. F(x, 1) \cap {x} = {}
      BY <2>7
    <3> QED
      BY <2>13, <2>15, <3>1, ConcatFrees
  <2>17. Frees(m, s \o <<x>> \o t, F(x, 1) \cup {x} \cup F(a, k + 1))
    <3> DEFINE r == s \o <<x>>
    <3>1. Frees(m, r, F(x, 1) \cup {x})
      BY <2>16
    <3>2. (F(x, 1) \cup {x}) \cap F(a, k + 1) = {}
      BY <2>7
    <3> HIDE DEF r
    <3>3. Frees(m, r \o t, F(x, 1) \cup {x} \cup F(a, k + 1))
      BY <2>13, <3>1, <3>2, ConcatFrees
    <3> QED
      BY <3>3, Zenon DEF r
  <2> QED
    BY <2>4, <2>7, <2>14, <2>17, Zenon
<1>9. Good(m + 1)
  <2>1. m + 1 \in 0 .. m + 1
    OBVIOUS
  <2> HIDE DEF Good
  <2> QED
    BY <1>8, <2>1
<1>10. Cardinality(F(0, 1)) <= m + 1
  <2>1. IsFiniteSet(1 .. m) /\ Cardinality(1 .. m) = m
    BY FS_Interval
  <2>2. IsFiniteSet(F(0, 1)) /\ Cardinality(F(0, 1)) <= m
    BY <1>4, <2>1, FS_Subset
  <2>3. Cardinality(F(0, 1)) \in Nat
    BY <2>2, FS_CardinalityType
  <2> QED
    BY <2>2, <2>3
<1>11. 0 \in 0 .. m /\ 1 \in 1 .. Len(L[0]) + 1 /\ h.child[0] = P(0, 1)
  <2>1. 0 \in 0 .. m
    OBVIOUS
  <2>2. Len(L[0]) \in Nat /\ h.child[0] = P(0, 1)
    BY <1>2, <2>1
  <2> QED
    BY <2>1, <2>2
<1>12. Frees(m, from[m + 1][h.child[0]], F(0, 1))
  BY <1>9, <1>10, <1>11
<1>13. F(0, 1) = Listed(m, L)
  BY SubtreesOfRoot DEF Linked, F
<1>14. h.child[0] \in Pointers(m)
  BY <1>11 DEF Heaps
<1> QED
  BY <1>1, <1>12, <1>13, <1>14, Zenon

(* Given a cell without children and without a next one it frees this one. *)
LEMMA DeleteAlone ==
    ASSUME NEW m \in Nat, NEW h \in Heaps(m), NEW c \in 1 .. m,
           h.child[c] = Null, h.next[c] = Null
    PROVE  cJSON_Delete(h, c) = <<c>>
<1>1. PICK from :
         /\ \A n \in 0 .. m + 1, x \in Pointers(m) :
                from[n][x] = IF x = Null \/ n = 0 THEN << >>
                             ELSE from[n - 1][h.child[x]] \o <<x>> \o from[n - 1][h.next[x]]
         /\ \A x \in Pointers(m) : cJSON_Delete(h, x) = from[m + 1][x]
  BY DeleteEquation
<1>2. Null \in Pointers(m) /\ c \in Pointers(m) /\ c # Null
  BY NullAssumption DEF Pointers
<1>3. PICK n : n = m + 1
  OBVIOUS
<1>4. m \in 0 .. m + 1 /\ n \in 0 .. m + 1 /\ n # 0 /\ n - 1 = m
  BY <1>3
<1>5. from[m][Null] = << >>
  BY <1>1, <1>2, <1>4, Zenon
<1>6. from[n][c] = from[n - 1][h.child[c]] \o <<c>> \o from[n - 1][h.next[c]]
  BY <1>1, <1>2, <1>4, Zenon
<1>7. h.child[c] = Null /\ h.next[c] = Null
  OBVIOUS
<1>8. from[n][c] = from[m][Null] \o <<c>> \o from[m][Null]
  BY <1>4, <1>6, <1>7, Zenon
<1>9. << >> \o <<c>> \o << >> = <<c>>
  OBVIOUS
<1>10. cJSON_Delete(h, c) = from[n][c]
  BY <1>1, <1>2, <1>3, Zenon
<1> QED
  BY <1>5, <1>8, <1>9, <1>10, Zenon

(***************************************************************************)
(* The inductive invariant.                                                *)
(***************************************************************************)

(* The cells 1 to m make up the lists L.                                   *)
Lists(m, L) ==
    /\ heap \in Heaps(m)
    /\ L \in ListsOf(m)
    /\ Linked(heap, m, L)
    /\ ParentsFirst(m, L)

(* After parsing every cell is in a list, and no prev of a first cell      *)
(* points to the last one: the tag that remove_tag takes out may be that   *)
(* one.                                                                    *)
Parsed(m, L) ==
    /\ freed = << >>
    /\ FirstsEndThere(heap, m, L)
    /\ Listed(m, L) = 1 .. m

(* Between the turns of the loop of remove_tag only the tag is in no list; *)
(* its children are counted, and their new array comes before it, so it is *)
(* none of them.                                                           *)
Reattaching(m, L) ==
    /\ freed = << >>
    /\ held \in [array : 0 .. m, object : 1 .. m, count : Nat]
    /\ held.array < held.object
    /\ held.count = Len(L[held.object])
    /\ heap.next[held.object] = Null
    /\ Listed(m, L) = 1 .. m \ {held.object}

(* Afterwards a cell is in a list or was freed, and a freed one has no     *)
(* children.                                                               *)
Changed(m, L) ==
    /\ freed \in Seq(1 .. m) /\ IsInjective(freed)
    /\ Listed(m, L) = 1 .. m \ Range(freed)
    /\ \A c \in Range(freed) : L[c] = << >>

Shape(m, L) ==
    /\ Lists(m, L)
    /\ pc = "parsed" => Parsed(m, L)
    /\ pc = "reattach" => Reattaching(m, L)
    /\ pc \in {"changed", "done"} => Changed(m, L)

IInv ==
    /\ file \in Tree
    /\ pc \in {"exited", "parsed", "reattach", "changed", "done"}
    /\ pc # "exited" => cmd \in Command
    /\ pc # "exited" => \E m \in Nat : \E L \in ListsOf(m) : Shape(m, L)
    /\ pc = "exited" => IsInjective(freed) /\ Range(freed) = Cells(heap)

(***************************************************************************)
(* It holds when the first process has not started yet.                    *)
(***************************************************************************)

(* There are no cells yet.                                                 *)
LEMMA InitIInv == Init => IInv
<1> SUFFICES ASSUME Init
             PROVE  IInv
  OBVIOUS
<1>1. Skeleton \in Tree /\ Len(Skeleton) = 0
  BY DEF Skeleton, Tree
<1>2. heap \in Heaps(0)
  BY <1>1, ParseLinked DEF Init
<1>3. Cells(heap) = {}
  <2>1. Cells(heap) = 1 .. 0
    BY <1>2, HeapCells
  <2> QED
    BY <2>1
<1>4. IsInjective(freed) /\ Range(freed) = {}
  <2>1. freed = << >> /\ DOMAIN << >> = {}
    BY DEF Init
  <2> QED
    BY <2>1 DEF IsInjective, Range
<1> QED
  BY <1>1, <1>3, <1>4 DEF Init, IInv

(***************************************************************************)
(* Every step keeps it.                                                    *)
(***************************************************************************)

(* The cells of the file are made.                                         *)
LEMMA ParseKeepsIInv ==
    ASSUME IInv, NEW c \in Command, parse_config_file(c)
    PROVE  IInv'
<1>1. file \in Tree /\ file' = file
  BY DEF IInv, parse_config_file
<1>2. PICK m \in Nat : \E L \in ListsOf(m) : Shape(m, L)'
  <2>1. heap' = parse_array(file) /\ pc' = "parsed" /\ freed' = << >>
    BY DEF parse_config_file
  <2>2. PICK m \in Nat : m = Len(file)
    BY <1>1, ParseLinked
  <2>3. PICK L \in ListsOf(m) : L = ParsedLists(file)
    BY <1>1, <2>2, ParseLinked
  <2>4. /\ heap' \in Heaps(m)
        /\ Linked(heap', m, L)
        /\ FirstsEndThere(heap', m, L)
        /\ ParentsFirst(m, L)
        /\ Listed(m, L) = 1 .. m
    BY <1>1, <2>1, <2>2, <2>3, ParseLinked
  <2>5. Shape(m, L)'
    BY <2>1, <2>4 DEF Shape, Lists, Parsed
  <2> QED
    BY <2>5
<1>3. cmd' = c /\ pc' = "parsed" /\ freed' = << >>
  BY DEF parse_config_file
<1> QED
  BY <1>1, <1>2, <1>3 DEF IInv


(* A command that is refused leaves the cells as they are.                 *)
LEMMA RefuseKeepsIInv ==
    ASSUME IInv, Refuse
    PROVE  IInv'
<1>1. PICK m \in Nat : \E L \in ListsOf(m) : Shape(m, L)
  BY DEF IInv, Refuse
<1>2. PICK L \in ListsOf(m) : Shape(m, L)
  BY <1>1
<1>3. /\ heap' = heap /\ freed' = freed /\ pc = "parsed" /\ pc' = "done"
      /\ freed = << >>
  BY <1>2 DEF Refuse, Shape, Parsed
<1>4. Lists(m, L)'
  BY <1>2, <1>3 DEF Shape, Lists
<1>5. Changed(m, L)'
  <2>1. << >> \in Seq(1 .. m) /\ DOMAIN << >> = {}
    OBVIOUS
  <2>2. IsInjective(<< >>) /\ Range(<< >>) = {}
    BY <2>1 DEF IsInjective, Range
  <2> QED
    BY <1>2, <1>3, <2>1, <2>2 DEF Changed, Shape, Parsed
<1>6. Shape(m, L)'
  BY <1>3, <1>4, <1>5 DEF Shape
<1>7. \E n \in Nat : \E M \in ListsOf(n) : Shape(n, M)'
  BY <1>6
<1> QED
  BY <1>3, <1>7 DEF IInv, Refuse

(* So does writing the file, and what is written is a tree.                *)
LEMMA WriteKeepsIInv ==
    ASSUME IInv, write_config_file
    PROVE  IInv'
<1>1. PICK m \in Nat : \E L \in ListsOf(m) : Shape(m, L)
  BY DEF IInv, write_config_file
<1>2. PICK L \in ListsOf(m) : Shape(m, L)
  BY <1>1
<1>3. /\ heap' = heap /\ freed' = freed /\ pc = "changed" /\ pc' = "done"
      /\ file' = cJSON_Print(heap)
  BY DEF write_config_file
<1>4. file' \in Tree
  BY <1>2, <1>3, PrintedTree DEF Shape, Lists
<1>5. Shape(m, L)'
  BY <1>2, <1>3 DEF Shape, Lists, Changed
<1>6. \E n \in Nat : \E M \in ListsOf(n) : Shape(n, M)'
  BY <1>5
<1> QED
  BY <1>3, <1>4, <1>6 DEF IInv, write_config_file

(* At the end what is not freed yet is in the lists, and freed with them.  *)
LEMMA FreeKeepsIInv ==
    ASSUME IInv, free_tags_tree
    PROVE  IInv'
<1>1. PICK m \in Nat : \E L \in ListsOf(m) : Shape(m, L)
  BY DEF IInv, free_tags_tree
<1>2. PICK L \in ListsOf(m) : Shape(m, L)
  BY <1>1
<1>3. /\ heap' = heap /\ file' = file /\ pc = "done" /\ pc' = "exited"
      /\ freed' = freed \o cJSON_Delete(heap, heap.child[0])
  BY DEF free_tags_tree, Root
<1>4. Lists(m, L) /\ Changed(m, L)
  BY <1>2, <1>3 DEF Shape
<1>5. Frees(m, freed, Range(freed)) /\ Range(freed) \subseteq 1 .. m
  <2>1. freed \in Seq(1 .. m) /\ IsInjective(freed)
    BY <1>4 DEF Changed
  <2>2. Range(freed) \subseteq 1 .. m
    BY <2>1 DEF Range
  <2> QED
    BY <2>1, <2>2 DEF Frees
<1>6. \A a \in 1 .. m : L[a] # << >> => a \in Listed(m, L)
  BY <1>4 DEF Changed
<1>7. Frees(m, cJSON_Delete(heap, heap.child[0]), Listed(m, L))
  BY <1>4, <1>6, DeleteFrees DEF Lists
<1>8. Listed(m, L) = 1 .. m \ Range(freed)
  BY <1>4 DEF Changed
<1>9. Frees(m, freed', Range(freed) \cup Listed(m, L))
  <2>1. Range(freed) \cap Listed(m, L) = {}
    BY <1>8
  <2> QED
    BY <1>3, <1>5, <1>7, <2>1, ConcatFrees
<1>10. Range(freed) \cup Listed(m, L) = 1 .. m
  BY <1>5, <1>8
<1>11. Cells(heap) = 1 .. m
  BY <1>4, HeapCells DEF Lists
<1>12. IsInjective(freed') /\ Range(freed') = Cells(heap')
  BY <1>3, <1>9, <1>10, <1>11 DEF Frees
<1>13. IsInjective(freed)' /\ (Range(freed) = Cells(heap))'
  BY <1>12
<1> QED
  BY <1>3, <1>13 DEF IInv

(* A new cell is appended to the root array or to a list in use.           *)
LEMMA AppendTagShape ==
    ASSUME NEW m \in Nat, NEW L \in ListsOf(m), Lists(m, L), Parsed(m, L),
           cmd.tag \in Name, cmd.assignable \in BOOLEAN,
           NEW array \in 0 .. m, AppendTag(array)
    PROVE  \E n \in Nat : \E M \in ListsOf(n) :
               /\ n = m + 1 /\ M = Appended(Extended(L, m), array, n)
               /\ heap'.tag = cJSON_New_Item(heap, cmd.tag, cmd.assignable).tag
               /\ Shape(n, M)'
<1>1. PICK h : h = cJSON_New_Item(heap, cmd.tag, cmd.assignable)
  OBVIOUS
<1>2. PICK n \in Nat : n = m + 1
  OBVIOUS
<1>3. PICK N : N = Extended(L, m)
  OBVIOUS
<1>4. /\ NewCell(heap) = n
      /\ h \in Heaps(n) /\ N \in ListsOf(n)
      /\ Linked(h, n, N)
      /\ h.next[n] = Null
      /\ Unlisted(n, N, n)
      /\ Listed(n, N) = Listed(m, L)
      /\ ParentsFirst(n, N)
  BY <1>1, <1>2, <1>3, NewItemLinked DEF Lists
<1>5. /\ heap' = add_item_to_array(h, array, n)
      /\ pc' = "changed" /\ freed' = << >>
  BY <1>1, <1>4 DEF AppendTag, Parsed
<1>6. array \in 0 .. n /\ n \in 1 .. n /\ array < n /\ 1 .. n = 1 .. m \cup {n}
  BY <1>2
<1>7. PICK M : M = Appended(N, array, n)
  OBVIOUS
<1>8. M \in ListsOf(n)
  BY <1>4, <1>6, <1>7, AppendedLists
<1>9. heap' \in Heaps(n) /\ Linked(heap', n, M) /\ heap'.tag = h.tag
  BY <1>4, <1>5, <1>6, <1>7, AppendLinked
<1>10. Listed(n, M) = Listed(n, N) \cup {n} /\ ParentsFirst(n, M)
  BY <1>4, <1>6, <1>7, AppendedListed
<1>11. Listed(n, M) = 1 .. n
  BY <1>4, <1>6, <1>10 DEF Parsed
<1>12. Lists(n, M)'
  BY <1>8, <1>9, <1>10 DEF Lists
<1>13. Changed(n, M)'
  <2>1. << >> \in Seq(1 .. n) /\ DOMAIN << >> = {}
    OBVIOUS
  <2>2. IsInjective(<< >>) /\ Range(<< >>) = {}
    BY <2>1 DEF IsInjective, Range
  <2> QED
    BY <1>5, <1>11, <2>1, <2>2 DEF Changed
<1>14. Shape(n, M)'
  BY <1>5, <1>12, <1>13 DEF Shape
<1> QED
  BY <1>1, <1>2, <1>3, <1>7, <1>8, <1>9, <1>14

(* For -a the array is the root array ...                                  *)
LEMMA AddTagKeepsIInv ==
    ASSUME IInv, AddTag
    PROVE  IInv'
<1>1. PICK m \in Nat : \E L \in ListsOf(m) : Shape(m, L)
  BY DEF IInv, AddTag
<1>2. PICK L \in ListsOf(m) : Shape(m, L)
  BY <1>1
<1>3. Lists(m, L) /\ Parsed(m, L) /\ cmd \in Command /\ cmd.op = "a"
  BY <1>2 DEF Shape, AddTag, IInv
<1>4. cmd.tag \in Name /\ cmd.assignable \in BOOLEAN
  BY <1>3, CommandAssumption
<1>5. Root \in 0 .. m /\ AppendTag(Root)
  BY DEF Root, AddTag
<1>6. \E n \in Nat : \E M \in ListsOf(n) : Shape(n, M)'
  BY <1>3, <1>4, <1>5, AppendTagShape
<1>7. file' = file /\ cmd' = cmd /\ pc' = "changed"
  BY <1>5 DEF AppendTag
<1> QED
  BY <1>3, <1>6, <1>7 DEF IInv

(* ... and for -p that of the parent, which was found in a list.           *)
LEMMA AddToParentKeepsIInv ==
    ASSUME IInv, AddToParent
    PROVE  IInv'
<1>1. PICK m \in Nat : \E L \in ListsOf(m) : Shape(m, L)
  BY DEF IInv, AddToParent
<1>2. PICK L \in ListsOf(m) : Shape(m, L)
  BY <1>1
<1>3. Lists(m, L) /\ Parsed(m, L) /\ cmd \in Command /\ cmd.op = "p"
  BY <1>2 DEF Shape, AddToParent, IInv
<1>4. cmd.tag \in Name /\ cmd.assignable \in BOOLEAN
  BY <1>3, CommandAssumption
<1>5. PICK array : array = get_tag_cell(heap, cmd.parent)
  OBVIOUS
<1>6. array # Null /\ AppendTag(array)
  BY <1>5 DEF AddToParent, Has
<1>7. array \in 0 .. m
  <2>1. array \in Listed(m, L)
    BY <1>3, <1>5, <1>6, TagCellListed DEF Lists
  <2>2. array \in 1 .. m
    BY <2>1 DEF Listed
  <2> QED
    BY <2>2
<1>8. \E n \in Nat : \E M \in ListsOf(n) : Shape(n, M)'
  BY <1>3, <1>4, <1>6, <1>7, AppendTagShape
<1>9. file' = file /\ cmd' = cmd /\ pc' = "changed"
  BY <1>6 DEF AppendTag
<1> QED
  BY <1>3, <1>8, <1>9 DEF IInv

(* The tag leaves the list it was found in; its own list stays.            *)
LEMMA DetachShape ==
    ASSUME NEW m \in Nat, NEW L \in ListsOf(m), Lists(m, L), Parsed(m, L), DetachTag
    PROVE  \E M \in ListsOf(m), a \in 0 .. m, k \in Nat :
               /\ k \in 1 .. Len(L[a]) /\ L[a][k] = get_tag_cell(heap, cmd.tag)
               /\ M = Detached(L, a, k)
               /\ held'.array = a /\ held'.object = L[a][k]
               /\ heap'.tag = heap.tag
               /\ Shape(m, M)'
<1>3. Lists(m, L) /\ Parsed(m, L)
  OBVIOUS
<1>4. PICK found : found = get_parent_array(heap, cmd.tag)
  OBVIOUS
<1>5. PICK a : a = found.array
  OBVIOUS
<1>6. PICK k : k = found.index + 1
  OBVIOUS
<1>7. /\ a \in 0 .. m /\ k \in 1 .. Len(L[a])
      /\ get_array_item(heap, found.array, found.index) = L[a][k]
      /\ L[a][k] = get_tag_cell(heap, cmd.tag)
  BY <1>3, <1>4, <1>5, <1>6, ParentArrayFinds DEF Lists, DetachTag, Has
<1>8. PICK c : c = L[a][k]
  OBVIOUS
<1>9. /\ heap' = cJSON_DetachItemViaPointer(heap, a, c)
      /\ held' = [array |-> a, object |-> c, count |-> Len(Items(heap, c))]
      /\ pc' = "reattach" /\ file' = file /\ cmd' = cmd /\ freed' = << >>
  <2>1. /\ heap' = cJSON_DetachItemFromArray(heap, found.array, found.index)
        /\ held' = [array |-> found.array,
                    object |-> get_array_item(heap, found.array, found.index),
                    count |-> Len(Items(heap, get_array_item(heap, found.array, found.index)))]
        /\ pc' = "reattach" /\ file' = file /\ cmd' = cmd /\ freed' = freed
    BY <1>4, Zenon DEF DetachTag
  <2> QED
    BY <1>3, <1>5, <1>7, <1>8, <2>1, Zenon DEF cJSON_DetachItemFromArray, Parsed
<1>10. c \in 1 .. m /\ a < c /\ c # a
  <2>1. c \in 1 .. m /\ a < c
    BY <1>3, <1>7, <1>8, ListElements DEF Lists, ParentsFirst
  <2> QED
    BY <1>7, <2>1
<1>11. c \in 0 .. m
  BY <1>10
<1>12. k = 1 \/ heap.prev[L[a][1]] = Null
  <2>1. L[a] # << >>
    BY <1>7, ListElements
  <2> QED
    BY <1>3, <1>7, <2>1 DEF Parsed, FirstsEndThere
<1>13. PICK M : M = Detached(L, a, k)
  OBVIOUS
<1>14. M \in ListsOf(m) /\ M[c] = L[c]
  BY <1>7, <1>10, <1>11, <1>13, DetachedLists
<1>15. heap' \in Heaps(m) /\ Linked(heap', m, M) /\ heap'.next[c] = Null /\ heap'.tag = heap.tag
  BY <1>3, <1>7, <1>8, <1>9, <1>12, <1>13, DetachLinked DEF Lists
<1>16. Listed(m, M) = Listed(m, L) \ {c} /\ ParentsFirst(m, M)
  BY <1>3, <1>7, <1>8, <1>13, DetachedListed DEF Lists, Linked
<1>17. Len(Items(heap, c)) = Len(M[c])
  BY <1>3, <1>11, <1>14, WalkList DEF Lists
<1>18. Lists(m, M)'
  BY <1>14, <1>15, <1>16 DEF Lists
<1>19. Reattaching(m, M)'
  <2>1. held'.array = a /\ held'.object = c /\ held'.count = Len(M[c])
    BY <1>9, <1>17
  <2>2. Listed(m, M) = 1 .. m \ {c}
    BY <1>3, <1>16 DEF Parsed
  <2> QED
    BY <1>7, <1>9, <1>10, <1>15, <2>1, <2>2 DEF Reattaching
<1>20. Shape(m, M)'
  BY <1>9, <1>18, <1>19 DEF Shape
<1>21. held'.array = a /\ held'.object = c /\ k \in Nat
  BY <1>7, <1>9
<1> QED
  BY <1>7, <1>8, <1>13, <1>14, <1>15, <1>20, <1>21

(* Then the children of the tag are counted.                               *)
LEMMA DetachKeepsIInv ==
    ASSUME IInv, DetachTag
    PROVE  IInv'
<1>1. PICK m \in Nat : \E L \in ListsOf(m) : Shape(m, L)
  BY DEF IInv, DetachTag
<1>2. PICK L \in ListsOf(m) : Shape(m, L)
  BY <1>1
<1>3. Lists(m, L) /\ Parsed(m, L)
  BY <1>2 DEF Shape, DetachTag
<1>4. \E M \in ListsOf(m) : Shape(m, M)'
  BY <1>3, DetachShape
<1>5. file' = file /\ cmd' = cmd /\ pc' = "reattach" /\ file \in Tree /\ cmd \in Command
  BY DEF IInv, DetachTag
<1> QED
  BY <1>4, <1>5 DEF IInv

(* The first child of the tag moves to the end of the tag's array.         *)
LEMMA ReattachShape ==
    ASSUME NEW m \in Nat, NEW L \in ListsOf(m), Lists(m, L), Reattaching(m, L), ReattachChild
    PROVE  /\ 1 \in 1 .. Len(L[held.object])
           /\ held'.array = held.array /\ held'.object = held.object
           /\ heap'.tag = heap.tag
           /\ \E N \in ListsOf(m) :
                  /\ N = Appended(Detached(L, held.object, 1), held.array, L[held.object][1])
                  /\ Shape(m, N)'
<1>3. Lists(m, L) /\ Reattaching(m, L)
  OBVIOUS
<1>4. PICK x : x = held.object
  OBVIOUS
<1>5. PICK array : array = held.array
  OBVIOUS
<1>6. /\ freed = << >> /\ array \in 0 .. m /\ x \in 1 .. m /\ array < x
      /\ held.count = Len(L[x]) /\ heap.next[x] = Null
      /\ Listed(m, L) = 1 .. m \ {x}
  BY <1>3, <1>4, <1>5 DEF Reattaching
<1>7. x \in 0 .. m /\ array # x
  BY <1>6
<1>8. 1 \in 1 .. Len(L[x])
  <2>1. Len(L[x]) \in Nat /\ Len(L[x]) > 0
    BY <1>6, <1>7, ListElements DEF ReattachChild
  <2> QED
    BY <2>1
<1>9. PICK c : c = L[x][1]
  OBVIOUS
<1>10. get_array_item(heap, x, 0) = c
  <2>1. Items(heap, x) = L[x]
    BY <1>3, <1>7, WalkList DEF Lists
  <2>2. 0 + 1 = 1
    OBVIOUS
  <2> QED
    BY <1>9, <2>1, <2>2, Zenon DEF get_array_item
<1>11. PICK g : g = cJSON_DetachItemViaPointer(heap, x, c)
  OBVIOUS
<1>12. /\ heap' = add_item_to_array(g, array, c)
       /\ held' = [held EXCEPT !.count = @ - 1]
       /\ pc' = "reattach" /\ file' = file /\ cmd' = cmd /\ freed' = << >>
  <2>1. /\ heap' = add_item_to_array(cJSON_DetachItemFromArray(heap, held.object, 0),
                                     held.array, get_array_item(heap, held.object, 0))
        /\ held' = [held EXCEPT !.count = @ - 1]
        /\ pc' = "reattach" /\ file' = file /\ cmd' = cmd /\ freed' = freed
    BY Zenon DEF ReattachChild
  <2> QED
    BY <1>4, <1>5, <1>6, <1>10, <1>11, <2>1, Zenon DEF cJSON_DetachItemFromArray
<1>13. c \in 1 .. m /\ x < c
  BY <1>3, <1>7, <1>8, <1>9, ListElements DEF Lists, ParentsFirst
<1>14. PICK M : M = Detached(L, x, 1)
  OBVIOUS
<1>15. /\ M \in ListsOf(m) /\ Len(M[x]) = Len(L[x]) - 1
  BY <1>7, <1>8, <1>14, DetachedLists
<1>16. Unlisted(m, L, x)
  BY <1>6 DEF Listed
<1>17. /\ g \in Heaps(m) /\ Linked(g, m, M) /\ g.tag = heap.tag
       /\ g.next[c] = Null /\ Unlisted(m, M, c)
       /\ Unlisted(m, M, x) /\ g.next[x] = Null
  BY <1>3, <1>6, <1>7, <1>8, <1>9, <1>11, <1>14, <1>16, DetachLinked DEF Lists
<1>18. Listed(m, M) = Listed(m, L) \ {c} /\ ParentsFirst(m, M)
  BY <1>3, <1>7, <1>8, <1>9, <1>14, DetachedListed DEF Lists, Linked
<1>19. PICK N : N = Appended(M, array, c)
  OBVIOUS
<1>20. N \in ListsOf(m) /\ N[x] = M[x]
  <2>1. array \in 0 .. m /\ c \in 1 .. m /\ M \in ListsOf(m)
    BY <1>6, <1>13, <1>15
  <2>2. /\ Appended(M, array, c) \in ListsOf(m)
        /\ \A b \in 0 .. m : b # array => Appended(M, array, c)[b] = M[b]
    BY <2>1, AppendedLists
  <2> QED
    BY <1>7, <1>19, <2>2
<1>21. heap' \in Heaps(m) /\ Linked(heap', m, N) /\ heap'.next[x] = Null /\ heap'.tag = g.tag
  BY <1>6, <1>12, <1>13, <1>15, <1>17, <1>19, AppendLinked
<1>22. array < c
  <2>1. array \in Nat /\ x \in Nat /\ c \in Nat
    BY <1>6, <1>13
  <2> QED
    BY <1>6, <1>13, <2>1
<1>23. Listed(m, N) = Listed(m, M) \cup {c} /\ ParentsFirst(m, N)
  BY <1>6, <1>13, <1>15, <1>18, <1>19, <1>22, AppendedListed
<1>24. Listed(m, N) = 1 .. m \ {x}
  <2>1. c # x
    BY <1>6, <1>13
  <2> QED
    BY <1>6, <1>13, <1>18, <1>23, <2>1
<1>25. /\ held'.array = array /\ held'.object = x /\ held'.count = Len(N[x])
       /\ held' = [array |-> array, object |-> x, count |-> Len(N[x])]
       /\ Len(N[x]) \in Nat
  <2>1. held \in [array : 0 .. m, object : 1 .. m, count : Nat]
    BY <1>3 DEF Reattaching
  <2>2. /\ held'.array = held.array /\ held'.object = held.object
        /\ held'.count = held.count - 1
    BY <1>12, <2>1
  <2>3. /\ DOMAIN held' = {"array", "object", "count"}
        /\ held' = [array |-> held'.array, object |-> held'.object, count |-> held'.count]
    BY <1>12, <2>1
  <2>4. held'.array = array /\ held'.object = x /\ held'.count = Len(N[x])
    BY <1>4, <1>5, <1>6, <1>15, <1>20, <2>2
  <2>5. Len(N[x]) \in Nat
    BY <1>7, <1>20, ListElements
  <2> QED
    BY <2>3, <2>4, <2>5
<1>26. Lists(m, N)'
  BY <1>20, <1>21, <1>23 DEF Lists
<1>27. Reattaching(m, N)'
  BY <1>6, <1>12, <1>21, <1>24, <1>25 DEF Reattaching
<1>28. Shape(m, N)'
  BY <1>12, <1>26, <1>27 DEF Shape
<1> QED
  BY <1>4, <1>5, <1>8, <1>9, <1>14, <1>17, <1>19, <1>20, <1>21, <1>25, <1>28

(* And they are one less.                                                  *)
LEMMA ReattachKeepsIInv ==
    ASSUME IInv, ReattachChild
    PROVE  IInv'
<1>1. PICK m \in Nat : \E L \in ListsOf(m) : Shape(m, L)
  BY DEF IInv, ReattachChild
<1>2. PICK L \in ListsOf(m) : Shape(m, L)
  BY <1>1
<1>3. Lists(m, L) /\ Reattaching(m, L)
  BY <1>2 DEF Shape, ReattachChild
<1>4. \E N \in ListsOf(m) : Shape(m, N)'
  BY <1>3, ReattachShape
<1>5. file' = file /\ cmd' = cmd /\ pc' = "reattach" /\ file \in Tree /\ cmd \in Command
  BY DEF IInv, ReattachChild
<1> QED
  BY <1>4, <1>5 DEF IInv

(* The tag has lost its children and its neighbours: it is freed alone.    *)
LEMMA DeleteKeepsIInv ==
    ASSUME IInv, DeleteTag
    PROVE  IInv'
<1>1. PICK m \in Nat : \E L \in ListsOf(m) : Shape(m, L)
  BY DEF IInv, DeleteTag
<1>2. PICK L \in ListsOf(m) : Shape(m, L)
  BY <1>1
<1>3. Lists(m, L) /\ Reattaching(m, L)
  BY <1>2 DEF Shape, DeleteTag
<1>4. PICK x : x = held.object
  OBVIOUS
<1>5. /\ freed = << >> /\ x \in 1 .. m
      /\ held.count = Len(L[x]) /\ heap.next[x] = Null
      /\ Listed(m, L) = 1 .. m \ {x}
  BY <1>3, <1>4 DEF Reattaching
<1>6. x \in 0 .. m
  BY <1>5
<1>7. L[x] = << >>
  BY <1>5, <1>6, ListElements DEF DeleteTag
<1>8. heap.child[x] = Null
  BY <1>3, <1>6, <1>7 DEF Lists, Linked, FirstLinked
<1>9. cJSON_Delete(heap, x) = <<x>>
  BY <1>3, <1>5, <1>8, DeleteAlone DEF Lists
<1>10. freed' = <<x>>
  <2>1. freed' = << >> \o <<x>>
    BY <1>4, <1>5, <1>9, Zenon DEF DeleteTag
  <2> QED
    BY <2>1
<1>11. heap' = heap /\ file' = file /\ cmd' = cmd /\ pc' = "changed"
  BY DEF DeleteTag
<1>12. Changed(m, L)'
  <2>1. <<x>> \in Seq(1 .. m) /\ DOMAIN <<x>> = {1} /\ <<x>>[1] = x
    BY <1>5
  <2>2. IsInjective(<<x>>) /\ Range(<<x>>) = {x}
    BY <2>1 DEF IsInjective, Range
  <2>3. \A c \in {x} : L[c] = << >>
    BY <1>7
  <2> QED
    BY <1>5, <1>10, <2>1, <2>2, <2>3 DEF Changed
<1>13. Lists(m, L)'
  BY <1>3, <1>11 DEF Lists
<1>14. Shape(m, L)'
  BY <1>11, <1>12, <1>13 DEF Shape
<1>15. \E n \in Nat : \E M \in ListsOf(n) : Shape(n, M)'
  BY <1>14
<1>16. file \in Tree /\ cmd \in Command
  BY DEF IInv, DeleteTag
<1> QED
  BY <1>11, <1>15, <1>16 DEF IInv

(* Every step is one of these, or changes nothing.                         *)
LEMMA NextKeepsIInv ==
    ASSUME IInv, [Next]_vars
    PROVE  IInv'
<1>1. ASSUME NEW c \in Command, parse_config_file(c)
      PROVE  IInv'
  BY <1>1, ParseKeepsIInv
<1>2. CASE AddTag
  BY <1>2, AddTagKeepsIInv
<1>3. CASE AddToParent
  BY <1>3, AddToParentKeepsIInv
<1>4. CASE DetachTag
  BY <1>4, DetachKeepsIInv
<1>5. CASE ReattachChild
  BY <1>5, ReattachKeepsIInv
<1>6. CASE DeleteTag
  BY <1>6, DeleteKeepsIInv
<1>7. CASE Refuse
  BY <1>7, RefuseKeepsIInv
<1>8. CASE write_config_file
  BY <1>8, WriteKeepsIInv
<1>9. CASE free_tags_tree
  BY <1>9, FreeKeepsIInv
<1>10. CASE UNCHANGED vars
  <2>1. /\ file' = file /\ pc' = pc /\ cmd' = cmd
        /\ heap' = heap /\ freed' = freed /\ held' = held
    BY <1>10 DEF vars
  <2> QED
    BY <2>1 DEF IInv, Shape, Lists, Parsed, Reattaching, Changed
<1> QED
  BY <1>1, <1>2, <1>3, <1>4, <1>5, <1>6, <1>7, <1>8, <1>9, <1>10 DEF Next

(* The invariant holds in every state of every behaviour.                  *)
LEMMA InvariantHolds == Spec => []IInv
<1>1. Init => IInv
  BY InitIInv
<1>2. IInv /\ [Next]_vars => IInv'
  BY NextKeepsIInv
<1> QED
  BY <1>1, <1>2, PTL DEF Spec

(***************************************************************************)
(* What follows from it.                                                   *)
(***************************************************************************)

(* Nothing is freed before a change.                                       *)
LEMMA FreedNothing == IsInjective(<< >>) /\ Range(<< >>) = {}
<1>1. DOMAIN << >> = {}
  OBVIOUS
<1> QED
  BY <1>1 DEF IsInjective, Range

(* What is listed is in use.                                               *)
LEMMA ListedInUse ==
    ASSUME NEW m \in Nat, NEW L \in ListsOf(m), Shape(m, L), IInv, pc # "exited",
           NEW c \in Listed(m, L)
    PROVE  InUse(c)
<1>1. CASE pc \in {"parsed", "reattach"}
  <2>1. freed = << >>
    BY <1>1 DEF Shape, Parsed, Reattaching
  <2> QED
    BY <2>1, FreedNothing DEF InUse
<1>2. CASE pc \in {"changed", "done"}
  BY <1>2 DEF Shape, Changed, InUse
<1> QED
  BY <1>1, <1>2 DEF IInv

(* The lists of the invariant are those that ListsLinked is about.         *)
LEMMA IInvLinked == IInv => ListsLinked
<1> SUFFICES ASSUME IInv, pc # "exited"
             PROVE  ListsLinked
  BY DEF ListsLinked
<1>1. PICK m \in Nat : \E L \in ListsOf(m) : Shape(m, L)
  BY DEF IInv
<1>2. PICK L \in ListsOf(m) : Shape(m, L)
  BY <1>1
<1>3. heap \in Heaps(m) /\ Linked(heap, m, L)
  BY <1>2 DEF Shape, Lists
<1>4. DOMAIN heap.child = 0 .. m
  BY <1>3, HeapCells
<1>5. ASSUME NEW a \in 0 .. m
      PROVE  /\ Items(heap, a) = L[a]
             /\ Len(L[a]) \in Nat /\ DOMAIN L[a] = 1 .. Len(L[a])
             /\ L[a] = << >> <=> Len(L[a]) = 0
             /\ \A i \in 1 .. Len(L[a]) : L[a][i] \in Listed(m, L)
  <2>1. /\ Len(L[a]) \in Nat /\ DOMAIN L[a] = 1 .. Len(L[a])
        /\ L[a] = << >> <=> Len(L[a]) = 0
        /\ \A i \in 1 .. Len(L[a]) : L[a][i] \in 1 .. m
    BY ListElements
  <2>2. Items(heap, a) = L[a]
    BY <1>3, WalkList
  <2>3. \A i \in 1 .. Len(L[a]) : L[a][i] \in Listed(m, L)
    BY <2>1 DEF Listed, Unlisted
  <2> QED
    BY <2>1, <2>2, <2>3
<1>6. NotShared
  <2> SUFFICES ASSUME NEW a \in 0 .. m, NEW b \in 0 .. m,
                      NEW i \in DOMAIN Items(heap, a), NEW j \in DOMAIN Items(heap, b),
                      Items(heap, a)[i] = Items(heap, b)[j]
               PROVE  a = b /\ i = j
    BY <1>4 DEF NotShared
  <2>1. /\ i \in 1 .. Len(L[a]) /\ j \in 1 .. Len(L[b])
        /\ L[a][i] = L[b][j]
    BY <1>5
  <2> QED
    BY <1>3, <2>1 DEF Linked, Disjoint
<1>7. ASSUME NEW a \in 0 .. m, heap.child[a] # Null
      PROVE  LET list == Items(heap, a)
             IN  /\ \A i \in DOMAIN list : InUse(list[i])
                 /\ \A i \in 2 .. Len(list) : heap.prev[list[i]] = list[i - 1]
                 /\ heap.prev[Head(list)] \in {Null, Last(list)}
  <2>1. L[a] # << >>
    BY <1>3, <1>7 DEF Linked, FirstLinked
  <2>2. heap.prev[L[a][1]] \in {Null, L[a][Len(L[a])]}
    BY <1>3, <2>1 DEF Linked, FirstLinked
  <2>3. Head(L[a]) = L[a][1] /\ Last(L[a]) = L[a][Len(L[a])]
    <3>1. L[a] \in Seq(1 .. m)
      BY ListElements
    <3> QED
      BY <2>1, <3>1 DEF Last
  <2>4. \A i \in DOMAIN L[a] : InUse(L[a][i])
    BY <1>2, <1>5, ListedInUse
  <2>5. ASSUME NEW i \in 2 .. Len(L[a])
        PROVE  heap.prev[L[a][i]] = L[a][i - 1]
    <3>1. i - 1 \in 1 .. Len(L[a]) - 1 /\ (i - 1) + 1 = i
      BY <1>5
    <3>2. heap.prev[L[a][(i - 1) + 1]] = L[a][i - 1]
      BY <1>3, <3>1, Zenon DEF Linked, NeighboursLinked
    <3> QED
      BY <3>1, <3>2
  <2> QED
    BY <1>5, <2>2, <2>3, <2>4, <2>5
<1> QED
  BY <1>4, <1>6, <1>7 DEF ListsLinked

(* And no cell was freed twice.                                            *)
LEMMA IInvFreed == IInv => EachFreedOnce
<1> SUFFICES ASSUME IInv
             PROVE  EachFreedOnce
  OBVIOUS
<1>1. CASE pc = "exited"
  BY <1>1 DEF IInv, EachFreedOnce
<1>2. CASE pc # "exited"
  <2>1. PICK m \in Nat : \E L \in ListsOf(m) : Shape(m, L)
    BY <1>2 DEF IInv
  <2>2. PICK L \in ListsOf(m) : Shape(m, L)
    BY <2>1
  <2>3. IsInjective(freed)
    <3>1. CASE pc \in {"parsed", "reattach"}
      BY <2>2, <3>1, FreedNothing DEF Shape, Parsed, Reattaching
    <3>2. CASE pc \in {"changed", "done"}
      BY <2>2, <3>2 DEF Shape, Changed
    <3> QED
      BY <1>2, <3>1, <3>2 DEF IInv
  <2> QED
    BY <1>2, <2>3 DEF EachFreedOnce
<1> QED
  BY <1>1, <1>2

(* ListsLinked, for every file, every command line and every number of     *)
(* tags: whatever manage-tag does with its cells, also in the middle of    *)
(* remove_tag, each array is a list of cells that are not freed, prev and  *)
(* next agree, and where cJSON_AddItemToArray looks for the last cell is   *)
(* the last cell or NULL.                                                  *)
THEOREM ListsStayLinked == Spec => []ListsLinked
<1>1. IInv => ListsLinked
  BY IInvLinked
<1> QED
  BY <1>1, InvariantHolds, PTL

(* EachFreedOnce: no process of manage-tag frees a cell twice, and none    *)
(* that runs to its end leaves a cell behind: the cell that remove_tag     *)
(* frees on its own is the only one that cannot be reached from the root   *)
(* any more when the tree is freed.                                        *)
THEOREM CellsAreFreedOnce == Spec => []EachFreedOnce
<1>1. IInv => EachFreedOnce
  BY IInvFreed
<1> QED
  BY <1>1, InvariantHolds, PTL

-----------------------------------------------------------------------------
(***************************************************************************)
(* Printing.                                                               *)
(***************************************************************************)

(* The children of a position in a forest come after it, one level deeper, *)
(* the first of them directly.                                             *)
LEMMA ChildrenAt ==
    ASSUME NEW t \in Tree, WellNested(t), NEW q \in 0 .. Len(t), NEW p \in ChildrenOf(t, q)
    PROVE  /\ p \in 1 .. Len(t) /\ q < p /\ IsParent(t, p, q)
           /\ t[p].depth = IF q = 0 THEN 0 ELSE t[q].depth + 1
           /\ q + 1 \in ChildrenOf(t, q)
<1>1. /\ Len(t) \in Nat /\ DOMAIN t = 1 .. Len(t)
      /\ \A k \in 1 .. Len(t) : t[k].depth \in Nat
  BY TreeElements DEF Tree
<1>2. p \in 1 .. Len(t) /\ ParentOf(t, p) = q
  BY <1>1 DEF ChildrenOf
<1>3. IsParent(t, p, q)
  BY <1>2, ParentOfIsParent
<1>4. /\ q < p /\ q + 1 \in 1 .. Len(t)
      /\ q # 0 => t[q].depth < t[p].depth
      /\ q + 1 = p \/ t[q + 1].depth >= t[p].depth
  BY <1>1, <1>2, <1>3 DEF IsParent
<1>5. t[q + 1].depth <= IF q = 0 THEN 0 ELSE t[q].depth + 1
  <2>1. CASE q = 0
    <3>1. t # << >>
      BY <1>1, <1>2
    <3> QED
      BY <1>4, <2>1, <3>1 DEF WellNested
  <2>2. CASE q # 0
    <3>1. q \in 1 .. Len(t) - 1
      BY <1>1, <1>4, <2>2
    <3> QED
      BY <2>2, <3>1 DEF WellNested
  <2> QED
    BY <2>1, <2>2
<1>6. t[p].depth = IF q = 0 THEN 0 ELSE t[q].depth + 1
  <2>1. q # 0 => t[q].depth \in Nat
    BY <1>1
  <2>2. t[p].depth \in Nat /\ t[q + 1].depth \in Nat
    BY <1>1, <1>2, <1>4
  <2> QED
    BY <1>4, <1>5, <2>1, <2>2, SMTT(20)
<1>7. IsParent(t, q + 1, q)
  <2>1. q \in 0 .. q + 1 - 1 /\ \A k \in q + 1 .. q + 1 - 1 : FALSE
    BY <1>1
  <2>2. q # 0 => t[q].depth < t[q + 1].depth
    <3> SUFFICES ASSUME q # 0 PROVE t[q].depth < t[q + 1].depth
      OBVIOUS
    <3>1. t[q].depth \in Nat /\ t[p].depth \in Nat /\ t[q + 1].depth \in Nat
      BY <1>1, <1>2, <1>4
    <3> QED
      BY <1>4, <3>1
  <2> QED
    BY <2>1, <2>2 DEF IsParent
<1>8. q + 1 \in ChildrenOf(t, q)
  BY <1>1, <1>4, <1>7, OneParent DEF ChildrenOf
<1> QED
  BY <1>2, <1>3, <1>4, <1>6, <1>8

(* What is at a position whose parent is q is a child of q.                *)
LEMMA ParentsChild ==
    ASSUME NEW t \in Tree, NEW p \in 1 .. Len(t), NEW q, IsParent(t, p, q)
    PROVE  p \in ChildrenOf(t, q)
<1>1. DOMAIN t = 1 .. Len(t)
  BY DEF Tree
<1> QED
  BY <1>1, OneParent DEF ChildrenOf

(* c gives the cell of each position of t, and of the root.                *)
CellsAt(m, t, c) ==
    /\ c \in [0 .. Len(t) -> 0 .. m]
    /\ c[0] = 0
    /\ \A p \in 1 .. Len(t) : c[p] \in 1 .. m

(* The list of each array has the cells of the children, in order.         *)
Represents(m, L, t, c) ==
    /\ CellsAt(m, t, c)
    /\ \A q \in 0 .. Len(t) : \E r \in Seq(ChildrenOf(t, q)) :
           /\ Ascending(r, ChildrenOf(t, q))
           /\ Len(L[c[q]]) = Len(r)
           /\ \A i \in 1 .. Len(r) : L[c[q]][i] = c[r[i]]

(* The position after p has the first child of p, and the one after the    *)
(* descendants of p its next sibling, if there are any.                    *)
HasChild(t, q) == q < Len(t) /\ (q = 0 \/ t[q + 1].depth > t[q].depth)

EndOf(t, p) == EndOfArray(t, p, t[p].depth + 1)

HasNext(t, p) == EndOf(t, p) < Len(t) /\ t[EndOf(t, p) + 1].depth = t[p].depth

Follows(h, t, c) ==
    /\ \A q \in 0 .. Len(t) : h.child[c[q]] = IF HasChild(t, q) THEN c[q + 1] ELSE Null
    /\ \A p \in 1 .. Len(t) : h.next[c[p]] = IF HasNext(t, p) THEN c[EndOf(t, p) + 1] ELSE Null

(* The first child, if there is one, directly follows its parent.          *)
LEMMA HasChildIff ==
    ASSUME NEW t \in Tree, WellNested(t), NEW q \in 0 .. Len(t)
    PROVE  /\ HasChild(t, q) => q + 1 \in ChildrenOf(t, q)
           /\ ~ HasChild(t, q) => ChildrenOf(t, q) = {}
<1>1. /\ Len(t) \in Nat /\ DOMAIN t = 1 .. Len(t)
      /\ \A k \in 1 .. Len(t) : t[k].depth \in Nat
  BY TreeElements DEF Tree
<1>2. ASSUME HasChild(t, q)
      PROVE  q + 1 \in ChildrenOf(t, q)
  <2>1. IsParent(t, q + 1, q) /\ q + 1 \in 1 .. Len(t)
    <3>1. q \in 0 .. q + 1 - 1 /\ \A k \in q + 1 .. q + 1 - 1 : FALSE
      BY <1>1
    <3>2. q # 0 => t[q].depth < t[q + 1].depth
      BY <1>1, <1>2 DEF HasChild
    <3> QED
      BY <1>1, <1>2, <3>1, <3>2 DEF IsParent, HasChild
  <2> QED
    BY <2>1, ParentsChild
<1>3. ASSUME NEW p \in ChildrenOf(t, q)
      PROVE  HasChild(t, q)
  <2>1. q + 1 \in ChildrenOf(t, q)
    BY ChildrenAt
  <2>2. q + 1 \in 1 .. Len(t) /\ t[q + 1].depth = IF q = 0 THEN 0 ELSE t[q].depth + 1
    BY <2>1, ChildrenAt
  <2> QED
    BY <1>1, <2>2 DEF HasChild
<1> QED
  BY <1>2, <1>3

(* The sibling that follows the descendants of p is the next child.        *)
LEMMA HasNextIff ==
    ASSUME NEW t \in Tree, WellNested(t), NEW q \in 0 .. Len(t), NEW p \in ChildrenOf(t, q)
    PROVE  LET e == EndOf(t, p)
           IN  /\ e \in p .. Len(t)
               /\ HasNext(t, p) =>
                      e + 1 \in ChildrenOf(t, q) /\ \A x \in ChildrenOf(t, q) : x > p => x > e
               /\ ~ HasNext(t, p) => \A x \in ChildrenOf(t, q) : x <= p
<1> DEFINE d == t[p].depth
           e == EndOf(t, p)
<1>1. /\ Len(t) \in Nat /\ DOMAIN t = 1 .. Len(t)
      /\ \A k \in 1 .. Len(t) : t[k].depth \in Nat
  BY TreeElements DEF Tree
<1>2. /\ p \in 1 .. Len(t) /\ q < p /\ IsParent(t, p, q)
      /\ d = t[p].depth /\ d = IF q = 0 THEN 0 ELSE t[q].depth + 1
  BY ChildrenAt
<1>3. d \in Nat /\ d + 1 \in Nat
  BY <1>1, <1>2
<1>4. /\ e \in p .. Len(t)
      /\ \A k \in p + 1 .. e : t[k].depth >= d + 1
      /\ e = Len(t) \/ t[e + 1].depth < d + 1
  BY <1>2, <1>3, EndOfArrayBounds DEF EndOf
<1>5. \A x \in ChildrenOf(t, q) : x \in 1 .. Len(t) /\ IsParent(t, x, q) /\ t[x].depth = d
  BY <1>2, ChildrenAt
<1> HIDE DEF e, d
<1>13. /\ Len(t) \in Nat /\ p \in Nat /\ q \in Nat /\ e \in Nat
       /\ q < p /\ p <= e /\ e <= Len(t)
  BY <1>1, <1>2, <1>4
<1>6. ASSUME e < Len(t), t[e + 1].depth = d
      PROVE  e + 1 \in ChildrenOf(t, q)
  <2>1. e + 1 \in 1 .. Len(t)
    BY <1>13, <1>6
  <2>2. ASSUME NEW k \in q + 1 .. (e + 1) - 1
        PROVE  t[k].depth >= d
    <3>1. k \in q + 1 .. p - 1 \/ k = p \/ k \in p + 1 .. e
      BY <1>13
    <3>2. k \in q + 1 .. p - 1 => t[k].depth >= d
      BY <1>2 DEF IsParent
    <3>3. k \in p + 1 .. e => t[k].depth \in Nat /\ t[k].depth >= d + 1
      <4>1. k \in p + 1 .. e => k \in 1 .. Len(t)
        BY <1>13
      <4> QED
        BY <1>1, <1>4, <4>1
    <3>4. k = p => t[k].depth = d
      BY <1>2
    <3> QED
      BY <1>3, <3>1, <3>2, <3>3, <3>4
  <2>3. IsParent(t, e + 1, q)
    <3>1. q \in 0 .. (e + 1) - 1
      BY <1>13
    <3>2. q # 0 => t[q].depth < d
      BY <1>2 DEF IsParent, d
    <3>3. /\ q # 0 => t[q].depth < t[e + 1].depth
          /\ \A k \in q + 1 .. (e + 1) - 1 : t[k].depth >= t[e + 1].depth
      BY <1>6, <2>2, <3>2
    <3> QED
      BY <3>1, <3>3, Zenon DEF IsParent
  <2> QED
    BY <2>1, <2>3, ParentsChild
<1>7. ASSUME NEW x \in ChildrenOf(t, q), x > p
      PROVE  x > e /\ e < Len(t) /\ t[e + 1].depth = d
  <2>1. x \in 1 .. Len(t) /\ IsParent(t, x, q) /\ t[x].depth = d
    BY <1>5
  <2>2. x > e
    <3> SUFFICES ASSUME x <= e PROVE FALSE
      BY <1>13, <2>1
    <3>1. x \in p + 1 .. e
      BY <1>13, <1>7, <2>1
    <3> QED
      BY <1>3, <1>4, <2>1, <3>1
  <2>3. e + 1 \in 1 .. Len(t) /\ t[e + 1].depth \in Nat /\ e < Len(t)
    <3>1. e + 1 \in 1 .. Len(t) /\ e < Len(t)
      BY <1>13, <2>1, <2>2
    <3> QED
      BY <1>1, <3>1
  <2>4. t[e + 1].depth <= d
    BY <1>3, <1>4, <2>3
  <2>5. t[e + 1].depth >= d
    <3>1. CASE e + 1 = x
      BY <1>3, <2>1, <3>1
    <3>2. CASE e + 1 # x
      <4>1. e + 1 \in q + 1 .. x - 1
        BY <1>13, <2>1, <2>2, <3>2
      <4> QED
        BY <2>1, <4>1 DEF IsParent
    <3> QED
      BY <3>1, <3>2
  <2> QED
    BY <1>3, <2>2, <2>3, <2>4, <2>5
<1>8. \A x \in ChildrenOf(t, q) : x \in Nat /\ p \in Nat
  BY <1>2, <1>5
<1>9. HasNext(t, p) <=> e < Len(t) /\ t[e + 1].depth = d
  BY DEF HasNext, e, d
<1>10. \A x \in ChildrenOf(t, q) : x > p => x > e /\ HasNext(t, p)
  BY <1>7, <1>9
<1>11. HasNext(t, p) => e + 1 \in ChildrenOf(t, q)
  BY <1>6, <1>9
<1>12. \A x \in ChildrenOf(t, q) : ~ (x > p) => x <= p
  BY <1>8
<1> QED
  BY <1>4, <1>10, <1>11, <1>12 DEF e

(* The pointers of such lists lead along the positions.                    *)
LEMMA RepresentedFollows ==
    ASSUME NEW m \in Nat, NEW h \in Heaps(m), NEW L \in ListsOf(m), Linked(h, m, L),
           NEW t \in Tree, WellNested(t), NEW c, Represents(m, L, t, c)
    PROVE  Follows(h, t, c)
<1>1. c \in [0 .. Len(t) -> 0 .. m] /\ Len(t) \in Nat
  BY TreeElements DEF Represents, CellsAt
<1>2. ASSUME NEW q \in 0 .. Len(t)
      PROVE  /\ h.child[c[q]] = IF HasChild(t, q) THEN c[q + 1] ELSE Null
             /\ \A p \in ChildrenOf(t, q) :
                    h.next[c[p]] = IF HasNext(t, p) THEN c[EndOf(t, p) + 1] ELSE Null
  <2> DEFINE Ch == ChildrenOf(t, q)
             a == c[q]
  <2>1. PICK r \in Seq(Ch) :
           /\ Ascending(r, Ch)
           /\ Len(L[a]) = Len(r)
           /\ \A i \in 1 .. Len(r) : L[a][i] = c[r[i]]
    BY DEF Represents
  <2>2. /\ Len(r) \in Nat
        /\ \A i \in 1 .. Len(r) : r[i] \in Ch
        /\ \A i, j \in 1 .. Len(r) : i < j => r[i] < r[j]
        /\ \A x \in Ch : \E i \in 1 .. Len(r) : r[i] = x
    BY <2>1 DEF Ascending
  <2>3. a \in 0 .. m
    BY <1>1
  <2>4. /\ h.child[a] = IF Len(r) = 0 THEN Null ELSE L[a][1]
        /\ \A i \in 1 .. Len(r) :
               h.next[L[a][i]] = IF i = Len(r) THEN Null ELSE L[a][i + 1]
    <3>1. /\ h.child[a] = PointerAt(L, a, 1)
          /\ \A i \in 1 .. Len(r) : h.next[L[a][i]] = PointerAt(L, a, i + 1)
      BY <2>1, <2>3, LinkedPointers
    <3>2. 1 = Len(L[a]) + 1 <=> Len(r) = 0
      BY <2>1, <2>2
    <3>3. \A i \in 1 .. Len(r) : i + 1 = Len(L[a]) + 1 <=> i = Len(r)
      BY <2>1, <2>2, SMTT(20)
    <3> QED
      BY <3>1, <3>2, <3>3 DEF PointerAt
  <2>5. \A x \in Ch : x \in Nat /\ q < x
    <3>1. \A x \in Ch : x \in 1 .. Len(t) /\ q < x
      BY ChildrenAt
    <3> QED
      BY <1>1, <3>1
  <2>6. q \in Nat
    BY <1>1
  <2> HIDE DEF a
  <2>7. h.child[a] = IF HasChild(t, q) THEN c[q + 1] ELSE Null
    <3>1. CASE HasChild(t, q)
      <4>1. q + 1 \in Ch
        BY <3>1, HasChildIff
      <4> HIDE DEF Ch
      <4>2. PICK j \in 1 .. Len(r) : r[j] = q + 1
        BY <2>2, <4>1
      <4>3. j = 1
        <5> SUFFICES ASSUME j # 1 PROVE FALSE
          OBVIOUS
        <5>1. 1 \in 1 .. Len(r) /\ 1 < j
          BY <2>2
        <5>2. r[1] < q + 1 /\ r[1] \in Nat /\ q < r[1]
          BY <2>2, <2>5, <4>2, <5>1
        <5> QED
          BY <2>6, <5>2
      <4>4. Len(r) # 0
        BY <2>2
      <4> QED
        BY <2>1, <2>4, <3>1, <4>2, <4>3, <4>4
    <3>2. CASE ~ HasChild(t, q)
      <4>1. Ch = {}
        BY <3>2, HasChildIff
      <4> HIDE DEF Ch
      <4>2. Len(r) = 0
        <5> SUFFICES ASSUME Len(r) # 0 PROVE FALSE
          OBVIOUS
        <5>1. 1 \in 1 .. Len(r)
          BY <2>2
        <5> QED
          BY <2>2, <4>1, <5>1
      <4> QED
        BY <2>4, <3>2, <4>2
    <3> QED
      BY <3>1, <3>2
  <2>8. ASSUME NEW p \in Ch
        PROVE  h.next[c[p]] = IF HasNext(t, p) THEN c[EndOf(t, p) + 1] ELSE Null
    <3> DEFINE e == EndOf(t, p)
    <3>1. /\ HasNext(t, p) => e + 1 \in Ch /\ \A x \in Ch : x > p => x > e
          /\ ~ HasNext(t, p) => \A x \in Ch : x <= p
          /\ e \in p .. Len(t)
      BY HasNextIff
    <3> HIDE DEF Ch, e
    <3>2. PICK i \in 1 .. Len(r) : r[i] = p
      BY <2>2
    <3>3. h.next[c[p]] = IF i = Len(r) THEN Null ELSE L[a][i + 1]
      BY <2>1, <2>4, <3>2
    <3>4. p \in Nat /\ e \in Nat /\ p <= e
      BY <1>1, <2>5, <3>1
    <3>5. CASE HasNext(t, p)
      <4>1. PICK j \in 1 .. Len(r) : r[j] = e + 1
        BY <2>2, <3>1, <3>5
      <4>2. i < j
        <5> SUFFICES ASSUME j <= i PROVE FALSE
          BY <2>2
        <5>1. j = i \/ r[j] < r[i]
          BY <2>2
        <5> QED
          BY <3>2, <3>4, <4>1, <5>1
      <4>3. j = i + 1
        <5> SUFFICES ASSUME i + 1 < j PROVE FALSE
          BY <2>2, <4>2
        <5>1. i + 1 \in 1 .. Len(r) /\ i < i + 1
          BY <2>2
        <5>2. r[i + 1] \in Ch /\ r[i + 1] > p /\ r[i + 1] < e + 1
          BY <2>2, <3>2, <4>1, <5>1
        <5>3. r[i + 1] > e /\ r[i + 1] \in Nat
          BY <2>5, <3>1, <3>5, <5>2
        <5> QED
          BY <3>4, <5>2, <5>3
      <4>4. i # Len(r) /\ i + 1 \in 1 .. Len(r)
        BY <2>2, <4>3
      <4> QED
        BY <2>1, <3>3, <3>5, <4>1, <4>3, <4>4 DEF e
    <3>6. CASE ~ HasNext(t, p)
      <4>1. i = Len(r)
        <5> SUFFICES ASSUME i # Len(r) PROVE FALSE
          OBVIOUS
        <5>1. i + 1 \in 1 .. Len(r) /\ i < i + 1
          BY <2>2
        <5>2. r[i + 1] \in Ch /\ r[i] < r[i + 1]
          BY <2>2, <5>1
        <5>3. r[i + 1] \in Nat /\ r[i + 1] <= p /\ p < r[i + 1]
          BY <2>5, <3>1, <3>2, <3>6, <5>2
        <5> QED
          BY <3>4, <5>3
      <4> QED
        BY <3>3, <3>6, <4>1
    <3> QED
      BY <3>5, <3>6
  <2> QED
    BY <2>7, <2>8 DEF a
<1>3. ASSUME NEW p \in 1 .. Len(t)
      PROVE  h.next[c[p]] = IF HasNext(t, p) THEN c[EndOf(t, p) + 1] ELSE Null
  <2>1. IsParent(t, p, ParentOf(t, p))
    BY ParentOfIsParent
  <2>2. ParentOf(t, p) \in 0 .. Len(t)
    BY <1>1, <2>1 DEF IsParent
  <2>3. p \in ChildrenOf(t, ParentOf(t, p))
    BY <2>1, ParentsChild
  <2> QED
    BY <1>2, <2>2, <2>3
<1> QED
  BY <1>2, <1>3 DEF Follows

(* Where an array ends is told by the depths.                              *)
LEMMA EndOfArrayIs ==
    ASSUME NEW t \in Tree, NEW i \in 1 .. Len(t), NEW d \in Nat, NEW e \in i .. Len(t),
           \A k \in i + 1 .. e : t[k].depth >= d,
           e = Len(t) \/ t[e + 1].depth < d
    PROVE  EndOfArray(t, i, d) = e
<1> DEFINE E == EndOfArray(t, i, d)
<1>1. /\ E \in i .. Len(t)
      /\ \A k \in i + 1 .. E : t[k].depth >= d
      /\ E = Len(t) \/ t[E + 1].depth < d
  BY EndOfArrayBounds
<1>2. Len(t) \in Nat /\ \A k \in 1 .. Len(t) : t[k].depth \in Nat
  BY TreeElements
<1> HIDE DEF E
<1>3. ~ (E < e)
  <2> SUFFICES ASSUME E < e PROVE FALSE
    OBVIOUS
  <2>1. E + 1 \in i + 1 .. e /\ E # Len(t) /\ E + 1 \in 1 .. Len(t)
    BY <1>1, <1>2
  <2>2. t[E + 1].depth < d /\ t[E + 1].depth >= d /\ t[E + 1].depth \in Nat
    BY <1>1, <1>2, <2>1
  <2> QED
    BY <2>2
<1>4. ~ (e < E)
  <2> SUFFICES ASSUME e < E PROVE FALSE
    OBVIOUS
  <2>1. e + 1 \in i + 1 .. E /\ e # Len(t) /\ e + 1 \in 1 .. Len(t)
    BY <1>1, <1>2
  <2>2. t[e + 1].depth < d /\ t[e + 1].depth >= d /\ t[e + 1].depth \in Nat
    BY <1>1, <1>2, <2>1
  <2> QED
    BY <2>2
<1>5. E \in Int /\ e \in Int
  BY <1>1, <1>2
<1> QED
  BY <1>3, <1>4, <1>5 DEF E

(* A part of a sequence is its first element and two parts.                *)
LEMMA PartSplits ==
    ASSUME NEW S, NEW s \in Seq(S), NEW p \in 1 .. Len(s), NEW e \in p .. Len(s),
           NEW E \in e .. Len(s)
    PROVE  SubSeq(s, p, E) = <<s[p]>> \o SubSeq(s, p + 1, e) \o SubSeq(s, e + 1, E)
<1> DEFINE x == SubSeq(s, p + 1, e)
           y == SubSeq(s, e + 1, E)
           w == SubSeq(s, p, E)
           v == <<s[p]>> \o x
           z == v \o y
<1>1. Len(s) \in Nat /\ \A i \in 1 .. Len(s) : s[i] \in S
  OBVIOUS
<1>2. x \in Seq(S) /\ Len(x) = e - p /\ \A i \in 1 .. e - p : x[i] = s[p + i]
  BY <1>1
<1>3. y \in Seq(S) /\ Len(y) = E - e /\ \A i \in 1 .. E - e : y[i] = s[e + i]
  BY <1>1
<1>4. w \in Seq(S) /\ Len(w) = E - p + 1 /\ \A i \in 1 .. E - p + 1 : w[i] = s[p + i - 1]
  BY <1>1
<1>5. <<s[p]>> \in Seq(S) /\ Len(<<s[p]>>) = 1 /\ <<s[p]>>[1] = s[p]
  BY <1>1
<1> HIDE DEF x, y, w
<1>6. /\ v \in Seq(S) /\ Len(v) = e - p + 1
      /\ \A i \in 1 .. e - p + 1 : v[i] = IF i = 1 THEN s[p] ELSE x[i - 1]
  <2>1. /\ v \in Seq(S) /\ Len(v) = 1 + Len(x)
        /\ \A i \in 1 .. 1 + Len(x) : v[i] = IF i <= 1 THEN <<s[p]>>[i] ELSE x[i - 1]
    <3>1. PICK u : u = <<s[p]>>
      OBVIOUS
    <3>2. u \in Seq(S) /\ Len(u) = 1
      BY <1>5, <3>1
    <3>3. /\ u \o x \in Seq(S) /\ Len(u \o x) = Len(u) + Len(x)
          /\ \A i \in 1 .. Len(u) + Len(x) :
                 (u \o x)[i] = IF i <= Len(u) THEN u[i] ELSE x[i - Len(u)]
      BY <1>2, <3>2, ConcatProperties, Zenon
    <3> QED
      BY <3>1, <3>2, <3>3, Zenon
  <2>2. 1 + Len(x) = e - p + 1 /\ Len(x) \in Nat
    BY <1>1, <1>2
  <2>3. \A i \in 1 .. 1 + Len(x) : i <= 1 <=> i = 1
    BY <2>2
  <2> HIDE DEF v
  <2> QED
    BY <1>5, <2>1, <2>2, <2>3
<1>7. \A i \in 1 .. e - p + 1 : v[i] = s[p + i - 1]
  <2> HIDE DEF v
  <2> SUFFICES ASSUME NEW i \in 1 .. e - p + 1
               PROVE  v[i] = s[p + i - 1]
    OBVIOUS
  <2>1. CASE i = 1
    <3>1. p + i - 1 = p
      BY <1>1, <2>1
    <3> QED
      BY <1>6, <2>1, <3>1
  <2>2. CASE i # 1
    <3>1. i - 1 \in 1 .. e - p /\ p + (i - 1) = p + i - 1
      BY <1>1, <2>2
    <3> QED
      BY <1>2, <1>6, <2>2, <3>1
  <2> QED
    BY <2>1, <2>2
<1> HIDE DEF v
<1>8. /\ z \in Seq(S) /\ Len(z) = E - p + 1
      /\ \A i \in 1 .. E - p + 1 : z[i] = IF i <= e - p + 1 THEN v[i] ELSE y[i - (e - p + 1)]
  <2>1. /\ z \in Seq(S) /\ Len(z) = Len(v) + Len(y)
        /\ \A i \in 1 .. Len(v) + Len(y) : z[i] = IF i <= Len(v) THEN v[i] ELSE y[i - Len(v)]
    BY <1>3, <1>6, ConcatProperties
  <2>2. Len(v) + Len(y) = E - p + 1
    BY <1>1, <1>3, <1>6
  <2> HIDE DEF z
  <2> QED
    BY <1>6, <2>1, <2>2
<1> HIDE DEF z
<1>9. ASSUME NEW i \in 1 .. E - p + 1
      PROVE  z[i] = w[i]
  <2>1. CASE i <= e - p + 1
    <3>1. i \in 1 .. e - p + 1
      BY <1>1, <2>1
    <3> QED
      BY <1>4, <1>7, <1>8, <2>1, <3>1
  <2>2. CASE ~ (i <= e - p + 1)
    <3>1. i - (e - p + 1) \in 1 .. E - e /\ e + (i - (e - p + 1)) = p + i - 1
      BY <1>1, <2>2
    <3> QED
      BY <1>3, <1>4, <1>8, <2>2, <3>1
  <2> QED
    BY <2>1, <2>2
<1>10. z = w
  BY <1>4, <1>8, <1>9
<1> QED
  BY <1>10 DEF z, w, v, x, y

(* The tag at a position and, if it is a child or the next sibling, where  *)
(* its own array ends.                                                     *)
LEMMA SegmentEnds ==
    ASSUME NEW t \in Tree, WellNested(t), NEW p \in 1 .. Len(t)
    PROVE  LET d == t[p].depth
               e == EndOf(t, p)
               E == EndOfArray(t, p, d)
           IN  /\ d \in Nat /\ e \in p .. Len(t) /\ E \in e .. Len(t)
               /\ HasChild(t, p) => /\ p + 1 \in 1 .. Len(t)
                                    /\ t[p + 1].depth = d + 1
                                    /\ EndOfArray(t, p + 1, d + 1) = e
               /\ ~ HasChild(t, p) => e = p
               /\ HasNext(t, p) => /\ e + 1 \in 1 .. Len(t)
                                   /\ t[e + 1].depth = d
                                   /\ EndOfArray(t, e + 1, d) = E
               /\ ~ HasNext(t, p) => E = e
<1> DEFINE d == t[p].depth
           e == EndOf(t, p)
           E == EndOfArray(t, p, d)
<1>1. /\ Len(t) \in Nat /\ \A k \in 1 .. Len(t) : t[k].depth \in Nat
      /\ d \in Nat /\ d + 1 \in Nat
  BY TreeElements
<1>2. /\ e \in p .. Len(t)
      /\ \A k \in p + 1 .. e : t[k].depth >= d + 1
      /\ e = Len(t) \/ t[e + 1].depth < d + 1
  BY <1>1, EndOfArrayBounds DEF EndOf
<1>3. /\ E \in p .. Len(t)
      /\ \A k \in p + 1 .. E : t[k].depth >= d
      /\ E = Len(t) \/ t[E + 1].depth < d
  BY <1>1, EndOfArrayBounds
<1>4. e <= E
  BY <1>1, ChildrenEndFirst DEF EndOf
<1>5. /\ HasChild(t, p) <=> p < Len(t) /\ t[p + 1].depth > d
      /\ HasNext(t, p) <=> e < Len(t) /\ t[e + 1].depth = d
  BY <1>1 DEF HasChild, HasNext
<1>6. p < Len(t) => t[p + 1].depth <= d + 1
  <2>1. p < Len(t) => p \in 1 .. Len(t) - 1
    BY <1>1
  <2> QED
    BY <2>1 DEF WellNested
<1> HIDE DEF d, e, E
<1>7. /\ p \in Nat /\ e \in Nat /\ E \in Nat /\ Len(t) \in Nat /\ d \in Nat
      /\ 1 <= p /\ p <= e /\ e <= E /\ E <= Len(t)
  BY <1>1, <1>2, <1>3, <1>4
<1>8. ASSUME HasChild(t, p)
      PROVE  /\ p + 1 \in 1 .. Len(t)
             /\ t[p + 1].depth = d + 1
             /\ EndOfArray(t, p + 1, d + 1) = e
  <2>1. p + 1 \in 1 .. Len(t)
    BY <1>5, <1>7, <1>8
  <2>2. t[p + 1].depth = d + 1
    <3>1. t[p + 1].depth \in Nat
      BY <1>1, <2>1
    <3> QED
      BY <1>5, <1>6, <1>7, <1>8, <3>1
  <2>3. e \in p + 1 .. Len(t)
    <3>1. e # p
      <4> SUFFICES ASSUME e = p PROVE FALSE
        OBVIOUS
      <4>1. t[p + 1].depth < d + 1
        BY <1>2, <1>5, <1>7, <1>8
      <4> QED
        BY <1>7, <2>2, <4>1
    <3> QED
      BY <1>7, <3>1
  <2>4. \A k \in (p + 1) + 1 .. e : t[k].depth >= d + 1
    <3>1. \A k \in (p + 1) + 1 .. e : k \in p + 1 .. e
      BY <1>7
    <3> QED
      BY <1>2, <3>1
  <2> QED
    BY <1>1, <1>2, <2>1, <2>2, <2>3, <2>4, EndOfArrayIs
<1>9. ASSUME ~ HasChild(t, p)
      PROVE  e = p
  <2> SUFFICES ASSUME e # p PROVE FALSE
    OBVIOUS
  <2>1. p + 1 \in p + 1 .. e /\ p + 1 \in 1 .. Len(t) /\ p < Len(t)
    BY <1>7
  <2>2. t[p + 1].depth >= d + 1 /\ t[p + 1].depth \in Nat
    BY <1>1, <1>2, <2>1
  <2> QED
    BY <1>5, <1>7, <1>9, <2>1, <2>2
<1>10. ASSUME HasNext(t, p)
       PROVE  /\ e + 1 \in 1 .. Len(t)
              /\ t[e + 1].depth = d
              /\ EndOfArray(t, e + 1, d) = E
  <2>1. e + 1 \in 1 .. Len(t) /\ t[e + 1].depth = d
    BY <1>5, <1>7, <1>10
  <2>2. E # e
    <3> SUFFICES ASSUME E = e PROVE FALSE
      OBVIOUS
    <3>1. t[e + 1].depth < d
      BY <1>3, <1>5, <1>7, <1>10
    <3> QED
      BY <1>7, <2>1, <3>1
  <2>3. E \in e + 1 .. Len(t) /\ \A k \in (e + 1) + 1 .. E : k \in p + 1 .. E
    BY <1>7, <2>2
  <2>4. \A k \in (e + 1) + 1 .. E : t[k].depth >= d
    BY <1>3, <2>3
  <2> QED
    BY <1>1, <1>3, <2>1, <2>3, <2>4, EndOfArrayIs
<1>11. ASSUME ~ HasNext(t, p)
       PROVE  E = e
  <2> SUFFICES ASSUME E # e PROVE FALSE
    OBVIOUS
  <2>1. e + 1 \in p + 1 .. E /\ e + 1 \in 1 .. Len(t) /\ e < Len(t)
    BY <1>7
  <2>2. t[e + 1].depth >= d /\ t[e + 1].depth \in Nat /\ t[e + 1].depth < d + 1
    BY <1>1, <1>2, <1>3, <1>7, <2>1
  <2> QED
    BY <1>5, <1>7, <1>11, <2>1, <2>2
<1>12. e \in p .. Len(t) /\ E \in e .. Len(t)
  BY <1>7
<1> QED
  BY <1>1, <1>8, <1>9, <1>10, <1>11, <1>12 DEF d, e, E

(* Following the pointers, Preorder finds the cells of the positions, one  *)
(* after the other, and their depths.                                      *)
LEMMA FollowsPreorder ==
    ASSUME NEW m \in Nat, NEW h \in Heaps(m), NEW t \in Tree, WellNested(t), Len(t) <= m,
           NEW c, CellsAt(m, t, c), Follows(h, t, c)
    PROVE  Preorder(h) = [i \in 1 .. Len(t) |-> [cell |-> c[i], depth |-> t[i].depth]]
<1> DEFINE N == Len(t)
           Entry(i) == [cell |-> c[i], depth |-> t[i].depth]
           W == [i \in 1 .. N |-> Entry(i)]
           EE(p) == EndOfArray(t, p, t[p].depth)
           none(d) == [cell |-> Null, depth |-> d]
<1>1. PICK from :
         /\ \A n \in 0 .. m + 1, e \in Entries(m) :
                from[n][e] = IF e.cell = Null \/ n = 0 THEN << >>
                             ELSE <<e>> \o from[n - 1][Below(h, e)] \o from[n - 1][Behind(h, e)]
         /\ Preorder(h) = from[m + 1][[cell |-> h.child[0], depth |-> 0]]
  BY PreorderEquation
<1>2. /\ N \in Nat /\ N <= m
      /\ \A p \in 1 .. N : t[p].depth \in Nat
      /\ \A p \in 1 .. N : c[p] \in 1 .. m /\ c[p] # Null
      /\ c[0] = 0
  BY TreeElements, NullAssumption DEF CellsAt
<1>3. \A p \in 1 .. N : Entry(p) \in Entries(m) /\ Entry(p).cell # Null
  BY <1>2 DEF Entries, Pointers
<1>4. W \in Seq(Entries(m)) /\ Len(W) = N /\ \A i \in 1 .. N : W[i] = Entry(i)
  BY <1>2, <1>3
<1>5. \A d \in Nat, n \in 0 .. m + 1 : from[n][none(d)] = << >>
  <2>1. \A d \in Nat : none(d) \in Entries(m) /\ none(d).cell = Null
    BY DEF Entries, Pointers
  <2> QED
    BY <1>1, <2>1
<1> DEFINE Good(n) == \A p \in 1 .. N : N - p < n => from[n][Entry(p)] = SubSeq(W, p, EE(p))
           Bad == {n \in 0 .. m + 1 : ~ Good(n)}
           least == Min(Bad)
<1>6. Bad = {}
  <2> SUFFICES ASSUME Bad # {}
               PROVE  FALSE
    OBVIOUS
  <2>1. least \in Bad /\ \A n \in Bad : least <= n
    <3>1. Bad \subseteq Nat
      OBVIOUS
    <3> HIDE DEF Bad
    <3> QED
      BY <3>1, MinIsLeast
  <2>2. least \in 0 .. m + 1 /\ ~ Good(least)
    BY <2>1
  <2> HIDE DEF least, Bad
  <2>3. PICK p \in 1 .. N : N - p < least /\ from[least][Entry(p)] # SubSeq(W, p, EE(p))
    BY <2>2
  <2>4. least \in Nat /\ least - 1 \in 0 .. m + 1 /\ least # 0
    BY <1>2, <2>2, <2>3
  <2>5. Good(least - 1)
    <3>1. least - 1 \notin Bad
      <4>1. ~ (least <= least - 1)
        BY <2>4
      <4> QED
        BY <2>1, <4>1
    <3> HIDE DEF Good
    <3> QED
      BY <2>4, <3>1 DEF Bad
  <2> DEFINE d == t[p].depth
             e == EndOf(t, p)
             E == EE(p)
  <2>6. /\ d \in Nat /\ e \in p .. N /\ E \in e .. N
        /\ HasChild(t, p) => /\ p + 1 \in 1 .. N
                             /\ t[p + 1].depth = d + 1
                             /\ EndOfArray(t, p + 1, d + 1) = e
        /\ ~ HasChild(t, p) => e = p
        /\ HasNext(t, p) => /\ e + 1 \in 1 .. N
                            /\ t[e + 1].depth = d
                            /\ EndOfArray(t, e + 1, d) = E
        /\ ~ HasNext(t, p) => E = e
    BY SegmentEnds
  <2>7. /\ p \in 0 .. N
        /\ h.child[c[p]] = IF HasChild(t, p) THEN c[p + 1] ELSE Null
        /\ h.next[c[p]] = IF HasNext(t, p) THEN c[e + 1] ELSE Null
    <3>1. p \in 0 .. N
      BY <1>2
    <3> QED
      BY <3>1 DEF Follows
  <2> HIDE DEF Good
  <2>8. from[least - 1][Below(h, Entry(p))] = SubSeq(W, p + 1, e)
    <3>1. CASE HasChild(t, p)
      <4>1. Below(h, Entry(p)) = Entry(p + 1)
        BY <2>6, <2>7, <3>1 DEF Below
      <4>2. p + 1 \in 1 .. N /\ N - (p + 1) < least - 1
        BY <1>2, <2>3, <2>4, <2>6, <3>1
      <4>3. from[least - 1][Entry(p + 1)] = SubSeq(W, p + 1, EE(p + 1))
        BY <2>5, <4>2 DEF Good
      <4>4. EE(p + 1) = e
        BY <2>6, <3>1
      <4> QED
        BY <4>1, <4>3, <4>4
    <3>2. CASE ~ HasChild(t, p)
      <4>1. Below(h, Entry(p)) = none(d + 1)
        BY <2>7, <3>2 DEF Below
      <4>2. from[least - 1][none(d + 1)] = << >>
        BY <1>5, <2>4, <2>6, SMTT(20)
      <4>3. SubSeq(W, p + 1, e) = << >>
        BY <1>2, <1>4, <2>6, <3>2
      <4> QED
        BY <4>1, <4>2, <4>3
    <3> QED
      BY <3>1, <3>2
  <2>9. from[least - 1][Behind(h, Entry(p))] = SubSeq(W, e + 1, E)
    <3>1. CASE HasNext(t, p)
      <4>1. Behind(h, Entry(p)) = Entry(e + 1)
        BY <2>6, <2>7, <3>1 DEF Behind
      <4>2. e + 1 \in 1 .. N /\ N - (e + 1) < least - 1
        BY <1>2, <2>3, <2>4, <2>6, <3>1
      <4>3. from[least - 1][Entry(e + 1)] = SubSeq(W, e + 1, EE(e + 1))
        BY <2>5, <4>2 DEF Good
      <4>4. EE(e + 1) = E
        BY <2>6, <3>1
      <4> QED
        BY <4>1, <4>3, <4>4
    <3>2. CASE ~ HasNext(t, p)
      <4>1. Behind(h, Entry(p)) = none(d)
        BY <2>7, <3>2 DEF Behind
      <4>2. from[least - 1][none(d)] = << >>
        BY <1>5, <2>4, <2>6
      <4>3. SubSeq(W, e + 1, E) = << >>
        BY <1>2, <1>4, <2>6, <3>2
      <4> QED
        BY <4>1, <4>2, <4>3
    <3> QED
      BY <3>1, <3>2
  <2>10. from[least][Entry(p)] = <<Entry(p)>> \o SubSeq(W, p + 1, e) \o SubSeq(W, e + 1, E)
    BY <1>1, <1>3, <2>2, <2>4, <2>8, <2>9, Zenon
  <2>11. SubSeq(W, p, E) = <<W[p]>> \o SubSeq(W, p + 1, e) \o SubSeq(W, e + 1, E)
    <3> HIDE DEF W, e, E
    <3>1. p \in 1 .. Len(W) /\ e \in p .. Len(W) /\ E \in e .. Len(W)
      BY <1>4, <2>6
    <3>2. W \in Seq(Entries(m))
      BY <1>4
    <3> QED
      BY <3>1, <3>2, PartSplits
  <2> QED
    BY <1>4, <2>3, <2>10, <2>11, Zenon
<1> HIDE DEF Bad
<1>7. CASE N = 0
  <2>1. h.child[0] = Null
    <3>1. ~ HasChild(t, 0) /\ 0 \in 0 .. N
      BY <1>2, <1>7 DEF HasChild
    <3> QED
      BY <1>2, <3>1 DEF Follows
  <2>2. Preorder(h) = << >>
    <3>1. m + 1 \in 0 .. m + 1
      OBVIOUS
    <3>2. from[m + 1][none(0)] = << >>
      BY <1>5, <3>1
    <3> QED
      BY <1>1, <2>1, <3>2
  <2>3. W = << >>
    BY <1>2, <1>4, <1>7
  <2> QED
    BY <2>2, <2>3
<1>8. CASE N # 0
  <2>1. 1 \in 1 .. N /\ N - 1 < m + 1 /\ m + 1 \in 0 .. m + 1
    BY <1>2, <1>8
  <2>2. t[1].depth = 0
    <3>1. t # << >>
      BY <1>2, <1>8
    <3> QED
      BY <3>1 DEF WellNested
  <2>3. h.child[0] = c[1]
    <3>1. HasChild(t, 0) /\ 0 \in 0 .. N
      BY <1>2, <1>8 DEF HasChild
    <3>2. h.child[c[0]] = c[0 + 1]
      BY <3>1 DEF Follows
    <3> QED
      BY <1>2, <3>2
  <2>4. Good(m + 1)
    <3> HIDE DEF Good
    <3> QED
      BY <1>6, <2>1 DEF Bad
  <2>5. from[m + 1][Entry(1)] = SubSeq(W, 1, EE(1))
    BY <2>1, <2>4
  <2>6. EE(1) = N
    <3>1. N \in 1 .. Len(t)
      BY <1>2, <2>1
    <3>2. \A k \in 1 + 1 .. N : t[k].depth >= 0
      <4>1. \A k \in 1 + 1 .. N : k \in 1 .. N
        BY <1>2
      <4> QED
        BY <1>2, <4>1
    <3> QED
      BY <2>1, <2>2, <3>1, <3>2, EndOfArrayIs
  <2>7. SubSeq(W, 1, N) = W
    <3> HIDE DEF W
    <3> QED
      BY <1>4
  <2>8. Preorder(h) = from[m + 1][Entry(1)]
    BY <1>1, <2>2, <2>3
  <2> QED
    BY <2>5, <2>6, <2>7, <2>8
<1> QED
  BY <1>7, <1>8

(* The cell of each position has its name and flag.                        *)
TagsAt(h, t, c) ==
    \A p \in 1 .. Len(t) : h.tag[c[p]] = [name |-> t[p].name, assignable |-> t[p].assignable]

(* Such a heap is printed as the tree ...                                  *)
LEMMA FollowsPrinted ==
    ASSUME NEW m \in Nat, NEW h \in Heaps(m), NEW t \in Tree, WellNested(t), Len(t) <= m,
           NEW c, CellsAt(m, t, c), Follows(h, t, c), TagsAt(h, t, c)
    PROVE  cJSON_Print(h) = t
<1> DEFINE N == Len(t)
           Entry(i) == [cell |-> c[i], depth |-> t[i].depth]
           P == Preorder(h)
           At(i) == new_tag(h.tag[P[i].cell].name, h.tag[P[i].cell].assignable, P[i].depth)
<1>1. P = [i \in 1 .. N |-> Entry(i)]
  BY FollowsPreorder
<1>2. cJSON_Print(h) = [i \in DOMAIN P |-> At(i)]
  BY DEF cJSON_Print
<1>3. /\ t = [i \in 1 .. N |-> t[i]]
      /\ \A i \in 1 .. N : t[i] \in Tag
  BY DEF Tree
<1>4. ASSUME NEW i \in 1 .. N
      PROVE  At(i) = t[i]
  <2>1. P[i].cell = c[i] /\ P[i].depth = t[i].depth
    BY <1>1
  <2>2. h.tag[c[i]].name = t[i].name /\ h.tag[c[i]].assignable = t[i].assignable
    <3>1. h.tag[c[i]] = [name |-> t[i].name, assignable |-> t[i].assignable]
      BY Zenon DEF TagsAt
    <3> QED
      BY <3>1
  <2>3. At(i) = new_tag(t[i].name, t[i].assignable, t[i].depth)
    BY <2>1, <2>2
  <2>4. t[i] \in Tag
    BY <1>3
  <2> QED
    BY <2>3, <2>4 DEF new_tag, Tag
<1>5. DOMAIN P = 1 .. N
  BY <1>1
<1> HIDE DEF P, At
<1> QED
  BY <1>2, <1>3, <1>4, <1>5

(* ... and each tag is found where it is in the tree.                      *)
LEMMA FollowsFound ==
    ASSUME NEW m \in Nat, NEW h \in Heaps(m), NEW t \in Tree, WellNested(t), Len(t) <= m,
           NEW c, CellsAt(m, t, c), Follows(h, t, c), TagsAt(h, t, c), NEW tag
    PROVE  get_tag_cell(h, tag) = IF get_tag(t, tag) = 0 THEN Null ELSE c[get_tag(t, tag)]
<1> DEFINE N == Len(t)
           P == Preorder(h)
           I == {i \in 1 .. Len(P) : h.tag[P[i].cell].name = tag}
           J == {i \in 1 .. Len(t) : t[i].name = tag}
           found == SelectInSeq(P, LAMBDA e : h.tag[e.cell].name = tag)
<1>1. P = [i \in 1 .. N |-> [cell |-> c[i], depth |-> t[i].depth]]
  BY FollowsPreorder
<1>2. found = IF I # {} THEN Min(I) ELSE 0
  BY DEF SelectInSeq
<1>3. get_tag(t, tag) = IF J # {} THEN Min(J) ELSE 0
  BY DEF get_tag, SelectInSeq
<1>4. get_tag_cell(h, tag) = IF found = 0 THEN Null ELSE P[found].cell
  BY DEF get_tag_cell
<1>5. N \in Nat
  BY TreeElements
<1>6. Len(P) = N /\ \A i \in 1 .. N : P[i].cell = c[i]
  <2> HIDE DEF P
  <2> QED
    BY <1>1, <1>5
<1>7. ASSUME NEW i \in 1 .. N
      PROVE  h.tag[c[i]].name = t[i].name
  <2>1. h.tag[c[i]] = [name |-> t[i].name, assignable |-> t[i].assignable]
    BY Zenon DEF TagsAt
  <2> QED
    BY <2>1
<1> HIDE DEF P
<1>8. I = J
  BY <1>6, <1>7
<1>9. get_tag(t, tag) \in 0 .. N
  BY GetTagFinds
<1> HIDE DEF I, J, found
<1>10. found = get_tag(t, tag)
  BY <1>2, <1>3, <1>8
<1> QED
  BY <1>4, <1>5, <1>6, <1>9, <1>10

(* What lists that represent a tree make of it.                            *)
LEMMA RepresentedPrinted ==
    ASSUME NEW m \in Nat, NEW h \in Heaps(m), NEW L \in ListsOf(m), Linked(h, m, L),
           NEW t \in Tree, WellNested(t), Len(t) <= m,
           NEW c, Represents(m, L, t, c), TagsAt(h, t, c)
    PROVE  cJSON_Print(h) = t
<1>1. Follows(h, t, c)
  BY RepresentedFollows
<1>2. CellsAt(m, t, c)
  BY DEF Represents
<1> QED
  BY <1>1, <1>2, FollowsPrinted

(***************************************************************************)
(* The commands.                                                           *)
(***************************************************************************)

Identity(n) == [p \in 0 .. n |-> p]

(* The lists of a text represent it.                                       *)
LEMMA ParsedRepresents ==
    ASSUME NEW t \in Tree
    PROVE  /\ Represents(Len(t), ParsedLists(t), t, Identity(Len(t)))
           /\ TagsAt(parse_array(t), t, Identity(Len(t)))
<1> DEFINE n == Len(t)
           c == Identity(n)
           L == ParsedLists(t)
<1>1. n \in Nat /\ DOMAIN t = 1 .. n
  BY DEF Tree
<1>2. /\ c \in [0 .. n -> 0 .. n]
      /\ \A p \in 0 .. n : c[p] = p
  BY <1>1 DEF Identity
<1> HIDE DEF c, L
<1>3. CellsAt(n, t, c)
  <2>1. \A p \in 1 .. n : p \in 0 .. n
    BY <1>1
  <2> QED
    BY <1>1, <1>2, <2>1 DEF CellsAt
<1>4. ASSUME NEW q \in 0 .. n
      PROVE  \E r \in Seq(ChildrenOf(t, q)) :
                 /\ Ascending(r, ChildrenOf(t, q))
                 /\ Len(L[c[q]]) = Len(r)
                 /\ \A i \in 1 .. Len(r) : L[c[q]][i] = c[r[i]]
  <2> DEFINE r == L[q]
  <2>1. /\ r \in Seq(ChildrenOf(t, q)) /\ Ascending(r, ChildrenOf(t, q))
        /\ r \in Seq(1 .. n) /\ Len(r) \in Nat
    BY ParsedListsAscending DEF L
  <2>2. c[q] = q
    BY <1>2
  <2> HIDE DEF r
  <2>3. \A i \in 1 .. Len(r) : c[r[i]] = r[i]
    <3>1. \A i \in 1 .. Len(r) : r[i] \in 1 .. n
      BY <2>1
    <3>2. \A x \in 1 .. n : x \in 0 .. n
      BY <1>1
    <3> QED
      BY <1>2, <3>1, <3>2
  <2>4. Len(L[c[q]]) = Len(r) /\ \A i \in 1 .. Len(r) : L[c[q]][i] = c[r[i]]
    BY <2>2, <2>3 DEF r
  <2> QED
    BY <2>1, <2>4
<1>5. TagsAt(parse_array(t), t, c)
  <2>1. \A p \in 1 .. n : p \in 0 .. n
    BY <1>1
  <2> QED
    BY <1>1, <1>2, <2>1 DEF TagsAt, parse_array
<1> QED
  BY <1>3, <1>4, <1>5 DEF Represents, c, L

(* manage-tag looks a tag up where it is in the file.                      *)
LEMMA ParsedFound ==
    ASSUME NEW t \in Tree, WellNested(t), NEW tag
    PROVE  get_tag_cell(parse_array(t), tag) =
               IF get_tag(t, tag) = 0 THEN Null ELSE get_tag(t, tag)
<1> DEFINE n == Len(t)
           c == Identity(n)
           h == parse_array(t)
           L == ParsedLists(t)
<1>1. n \in Nat /\ h \in Heaps(n) /\ L \in ListsOf(n) /\ Linked(h, n, L)
  BY ParseLinked
<1>2. Represents(n, L, t, c) /\ TagsAt(h, t, c)
  BY ParsedRepresents
<1> HIDE DEF c, h, L
<1>3. Follows(h, t, c) /\ CellsAt(n, t, c)
  BY <1>1, <1>2, RepresentedFollows DEF Represents
<1>4. get_tag_cell(h, tag) = IF get_tag(t, tag) = 0 THEN Null ELSE c[get_tag(t, tag)]
  <2>1. n <= n
    BY <1>1
  <2> QED
    BY <1>1, <1>2, <1>3, <2>1, FollowsFound
<1>5. c[get_tag(t, tag)] = get_tag(t, tag)
  BY GetTagFinds DEF c, Identity
<1> QED
  BY <1>4, <1>5 DEF h

(* Where the position x is after an insertion behind end.                  *)
Shifted(end, x) == IF x <= end THEN x ELSE x + 1

(* The cells of the positions: the tag behind end has the new cell.        *)
InsertedAt(n, end) ==
    [p \in 0 .. n + 1 |-> IF p <= end THEN p ELSE IF p = end + 1 THEN n + 1 ELSE p - 1]

(* new is t with a tag inserted behind end, as the last child of i.        *)
Inserts(t, new, i, end) ==
    /\ new \in Tree /\ Len(new) = Len(t) + 1
    /\ i \in 0 .. Len(t) /\ end \in i .. Len(t)
    /\ \A j \in ChildrenOf(t, i) : j <= end
    /\ ParentOf(new, end + 1) = i
    /\ \A k \in 1 .. Len(t) :
           ParentOf(new, Shifted(end, k)) = Shifted(end, ParentOf(t, k))

(* A new cell appended to the list of i makes the lists represent it.      *)
LEMMA InsertedRepresents ==
    ASSUME NEW t \in Tree, NEW new, NEW i, NEW end, Inserts(t, new, i, end)
    PROVE  LET n == Len(t)
           IN  Represents(n + 1, Appended(Extended(ParsedLists(t), n), i, n + 1), new,
                          InsertedAt(n, end))
<1> DEFINE n == Len(t)
           L == ParsedLists(t)
           X == Extended(L, n)
           M == Appended(X, i, n + 1)
           c == InsertedAt(n, end)
           S(x) == Shifted(end, x)
<1>1. /\ n \in Nat /\ new \in Tree /\ Len(new) = n + 1
      /\ i \in 0 .. n /\ end \in i .. n
      /\ \A j \in ChildrenOf(t, i) : j <= end
      /\ ParentOf(new, end + 1) = i
      /\ \A k \in 1 .. n : ParentOf(new, S(k)) = S(ParentOf(t, k))
  BY TreeElements DEF Inserts
<1>2. DOMAIN t = 1 .. n /\ DOMAIN new = 1 .. n + 1
  BY <1>1 DEF Tree
<1>3. \A a \in 0 .. n : /\ L[a] \in Seq(ChildrenOf(t, a)) /\ Ascending(L[a], ChildrenOf(t, a))
                        /\ L[a] \in Seq(1 .. n) /\ Len(L[a]) \in Nat
                        /\ \A j \in 1 .. Len(L[a]) : L[a][j] \in ChildrenOf(t, a)
  BY ParsedListsAscending
<1>4. /\ X \in ListsOf(n + 1) /\ X[n + 1] = << >> /\ \A a \in 0 .. n : X[a] = L[a]
  <2>1. X = [a \in 0 .. n + 1 |-> IF a = n + 1 THEN << >> ELSE L[a]]
    BY DEF Extended
  <2>2. n + 1 \in 0 .. n + 1 /\ \A a \in 0 .. n : a \in 0 .. n + 1 /\ a # n + 1
    BY <1>1
  <2>3. X[n + 1] = << >> /\ \A a \in 0 .. n : X[a] = L[a]
    <3> HIDE DEF X
    <3> QED
      BY <2>1, <2>2
  <2>4. ASSUME NEW a \in 0 .. n + 1
        PROVE  X[a] \in Seq(1 .. n + 1)
    <3>1. CASE a = n + 1
      <4>1. X[a] = << >>
        BY <2>3, <3>1
      <4> HIDE DEF X
      <4> QED
        BY <4>1
    <3>2. CASE a # n + 1
      <4>1. a \in 0 .. n
        BY <1>1, <3>2
      <4>2. L[a] \in Seq(1 .. n) /\ X[a] = L[a]
        BY <1>3, <2>3, <4>1
      <4>3. L[a] \in Seq(1 .. n + 1)
        <5> HIDE DEF L
        <5>1. 1 .. n \subseteq 1 .. n + 1
          BY <1>1
        <5> QED
          BY <4>2, <5>1
      <4> QED
        BY <4>2, <4>3
    <3> QED
      BY <3>1, <3>2
  <2>5. X \in [0 .. n + 1 -> Seq(1 .. n + 1)]
    <3> HIDE DEF X
    <3> QED
      BY <2>1, <2>4
  <2> QED
    BY <2>3, <2>5 DEF ListsOf
<1>5. /\ \A b \in 0 .. n + 1 : b # i => M[b] = X[b]
      /\ Len(M[i]) = Len(X[i]) + 1
      /\ \A j \in 1 .. Len(X[i]) : M[i][j] = X[i][j]
      /\ M[i][Len(X[i]) + 1] = n + 1
  <2>1. n + 1 \in Nat /\ i \in 0 .. n + 1 /\ n + 1 \in 1 .. n + 1
    BY <1>1
  <2> HIDE DEF X
  <2> QED
    BY <1>4, <2>1, AppendedLists
<1> HIDE DEF L, X, M
<1>6. /\ c \in [0 .. n + 1 -> 0 .. n + 1]
      /\ c[0] = 0
      /\ \A p \in 1 .. n + 1 : c[p] \in 1 .. n + 1
      /\ \A x \in 0 .. n : S(x) \in 0 .. n + 1 /\ c[S(x)] = x /\ S(x) # end + 1
      /\ \A x \in 1 .. n : S(x) \in 1 .. n + 1
      /\ \A x, y \in 0 .. n : x < y => S(x) < S(y)
      /\ \A x, y \in 0 .. n : S(x) = S(y) => x = y
      /\ end + 1 \in 1 .. n + 1 /\ c[end + 1] = n + 1
  <2>1. /\ n \in Nat /\ end \in 0 .. n
    BY <1>1
  <2> QED
    BY <2>1 DEF InsertedAt, Shifted
<1>7. \A q \in 0 .. n + 1 : q # end + 1 => \E u \in 0 .. n : q = S(u)
  <2> SUFFICES ASSUME NEW q \in 0 .. n + 1, q # end + 1
               PROVE  \E u \in 0 .. n : q = S(u)
    OBVIOUS
  <2>1. /\ n \in Nat /\ end \in 0 .. n
    BY <1>1
  <2>2. CASE q <= end
    <3>1. q \in 0 .. n /\ S(q) = q
      BY <2>1, <2>2 DEF Shifted
    <3> QED
      BY <3>1
  <2>3. CASE ~ (q <= end)
    <3>1. q - 1 \in 0 .. n /\ S(q - 1) = q
      BY <2>1, <2>3 DEF Shifted
    <3> QED
      BY <3>1
  <2> QED
    BY <2>2, <2>3
<1>8. S(i) = i
  BY <1>1 DEF Shifted
<1>9. \A x \in 1 .. n : ParentOf(t, x) \in 0 .. n
  <2> SUFFICES ASSUME NEW x \in 1 .. n PROVE ParentOf(t, x) \in 0 .. n
    OBVIOUS
  <2>1. IsParent(t, x, ParentOf(t, x))
    BY ParentOfIsParent
  <2> QED
    BY <1>1, <2>1 DEF IsParent
\* The children in the new tree, in terms of the old one.
<1>10. ASSUME NEW u \in 0 .. n
       PROVE  /\ \A x \in ChildrenOf(t, u) : x \in 1 .. n /\ S(x) \in ChildrenOf(new, S(u))
              /\ \A v \in ChildrenOf(new, S(u)) :
                     \/ v = end + 1 /\ u = i
                     \/ \E x \in ChildrenOf(t, u) : v = S(x)
  <2>1. ASSUME NEW x \in ChildrenOf(t, u)
        PROVE  x \in 1 .. n /\ S(x) \in ChildrenOf(new, S(u))
    <3>1. x \in 1 .. n /\ ParentOf(t, x) = u
      BY <1>2 DEF ChildrenOf
    <3>2. ParentOf(new, S(x)) = S(u) /\ S(x) \in 1 .. n + 1
      BY <1>1, <1>6, <3>1
    <3> QED
      BY <1>2, <3>1, <3>2 DEF ChildrenOf
  <2>2. ASSUME NEW v \in ChildrenOf(new, S(u))
        PROVE  \/ v = end + 1 /\ u = i
               \/ \E x \in ChildrenOf(t, u) : v = S(x)
    <3>1. v \in 1 .. n + 1 /\ ParentOf(new, v) = S(u)
      BY <1>2 DEF ChildrenOf
    <3>2. CASE v = end + 1
      <4>1. S(i) = S(u)
        BY <1>1, <1>8, <3>1, <3>2
      <4>2. i \in 0 .. n
        BY <1>1
      <4> QED
        BY <1>6, <3>2, <4>1, <4>2
    <3>3. CASE v # end + 1
      <4>1. v \in 0 .. n + 1
        BY <1>1, <3>1
      <4>2. PICK x \in 0 .. n : v = S(x)
        BY <1>7, <3>3, <4>1
      <4>3. x \in 1 .. n
        <5>1. x # 0
          <6>1. S(0) = 0
            BY <1>1 DEF Shifted
          <6> QED
            BY <1>1, <3>1, <4>2, <6>1
        <5> QED
          BY <1>1, <5>1
      <4>4. S(ParentOf(t, x)) = S(u) /\ ParentOf(t, x) \in 0 .. n
        BY <1>1, <1>9, <3>1, <4>2, <4>3
      <4>5. ParentOf(t, x) = u
        BY <1>6, <4>4
      <4>6. x \in ChildrenOf(t, u)
        BY <1>2, <4>3, <4>5 DEF ChildrenOf
      <4> QED
        BY <4>2, <4>6
    <3> QED
      BY <3>2, <3>3
  <2> QED
    BY <2>1, <2>2
<1> HIDE DEF c, S
<1> DEFINE Good(q, r) == /\ Ascending(r, ChildrenOf(new, q))
                         /\ Len(M[c[q]]) = Len(r)
                         /\ \A j \in 1 .. Len(r) : M[c[q]][j] = c[r[j]]
\* The new tag has no children.
<1>11. \E r \in Seq(ChildrenOf(new, end + 1)) : Good(end + 1, r)
  <2>1. M[c[end + 1]] = << >>
    <3>1. i # n + 1 /\ n + 1 \in 0 .. n + 1
      BY <1>1
    <3> QED
      BY <1>4, <1>5, <1>6, <3>1
  <2>2. ChildrenOf(new, end + 1) = {}
    <3> SUFFICES ASSUME NEW v \in ChildrenOf(new, end + 1) PROVE FALSE
      OBVIOUS
    <3>1. v \in 1 .. n + 1 /\ ParentOf(new, v) = end + 1
      BY <1>2 DEF ChildrenOf
    <3>2. CASE v = end + 1
      BY <1>1, <3>1, <3>2
    <3>3. CASE v # end + 1
      <4>1. v \in 0 .. n + 1
        BY <1>1, <3>1
      <4>2. PICK x \in 0 .. n : v = S(x)
        BY <1>7, <3>3, <4>1
      <4>3. x \in 1 .. n
        <5>1. x # 0
          <6>1. S(0) = 0
            BY <1>1 DEF Shifted, S
          <6> QED
            BY <1>1, <3>1, <4>2, <6>1
        <5> QED
          BY <1>1, <5>1
      <4>4. S(ParentOf(t, x)) = end + 1 /\ ParentOf(t, x) \in 0 .. n
        BY <1>1, <1>9, <3>1, <4>2, <4>3
      <4> QED
        BY <1>6, <4>4
    <3> QED
      BY <3>2, <3>3
  <2> DEFINE r == << >>
  <2>3. r \in Seq(ChildrenOf(new, end + 1)) /\ Len(r) = 0
    OBVIOUS
  <2>4. Good(end + 1, r)
    <3>1. Ascending(r, ChildrenOf(new, end + 1))
      BY <2>2, <2>3 DEF Ascending
    <3> QED
      BY <2>1, <2>3, <3>1
  <2> QED
    BY <2>3, <2>4
<1>12. ASSUME NEW u \in 0 .. n
       PROVE  \E r \in Seq(ChildrenOf(new, S(u))) : Good(S(u), r)
  <2> DEFINE s == L[u]
             k == Len(s)
             Ch == ChildrenOf(t, u)
             New == ChildrenOf(new, S(u))
  <2>1. /\ k \in Nat /\ \A j \in 1 .. k : s[j] \in Ch /\ s[j] \in 0 .. n
        /\ \A x, y \in 1 .. k : x < y => s[x] < s[y]
        /\ \A x \in Ch : \E j \in 1 .. k : s[j] = x
    <3>1. \A j \in 1 .. k : s[j] \in Ch
      BY <1>3
    <3>2. \A x \in Ch : x \in 0 .. n
      <4>1. \A x \in 1 .. n : x \in 0 .. n
        BY <1>1
      <4> QED
        BY <1>10, <4>1
    <3> QED
      BY <1>3, <3>1, <3>2 DEF Ascending
  <2>2. X[u] = s /\ c[S(u)] = u
    BY <1>4, <1>6
  <2>3. /\ \A j \in 1 .. k : S(s[j]) \in New /\ c[S(s[j])] = s[j]
        /\ \A x, y \in 1 .. k : x < y => S(s[x]) < S(s[y])
    BY <1>6, <1>10, <2>1
  <2> HIDE DEF s, k, Ch, New
  <2>4. CASE u # i
    <3> DEFINE r == [j \in 1 .. k |-> S(s[j])]
    <3>1. r \in Seq(New) /\ Len(r) = k /\ \A j \in 1 .. k : r[j] = S(s[j])
      BY <2>1, <2>3
    <3> HIDE DEF r
    <3>2. M[c[S(u)]] = s
      <4>1. u \in 0 .. n + 1
        BY <1>1
      <4> QED
        BY <1>5, <2>2, <2>4, <4>1
    <3>3. \A v \in New : \E x \in Ch : v = S(x)
      BY <1>10, <2>4 DEF New, Ch
    <3>4. Ascending(r, New)
      BY <2>1, <2>3, <3>1, <3>3 DEF Ascending
    <3>5. Good(S(u), r)
      BY <2>3, <3>1, <3>2, <3>4 DEF New, k
    <3> QED
      BY <3>1, <3>5 DEF New
  <2>5. CASE u = i
    <3> DEFINE r == [j \in 1 .. k + 1 |-> IF j = k + 1 THEN end + 1 ELSE S(s[j])]
    <3>1. end + 1 \in New
      BY <1>1, <1>2, <1>6, <1>8, <2>5 DEF ChildrenOf, New
    <3>2. r \in Seq(New) /\ Len(r) = k + 1
      <4>1. \A j \in 1 .. k + 1 : j # k + 1 => j \in 1 .. k
        BY <2>1
      <4>2. \A j \in 1 .. k + 1 : r[j] \in New
        BY <2>3, <3>1, <4>1
      <4> QED
        BY <2>1, <4>2
    <3>3. r[k + 1] = end + 1 /\ \A j \in 1 .. k : r[j] = S(s[j])
      <4>1. k + 1 \in 1 .. k + 1 /\ \A j \in 1 .. k : j \in 1 .. k + 1 /\ j # k + 1
        BY <2>1
      <4> QED
        BY <4>1
    <3> HIDE DEF r
    <3>4. \A j \in 1 .. k : S(s[j]) < end + 1
      <4>1. \A j \in 1 .. k : s[j] <= end /\ s[j] \in 0 .. n
        BY <1>1, <2>1, <2>5 DEF Ch
      <4> QED
        BY <1>1, <4>1 DEF S, Shifted
    <3>5. \A x, y \in 1 .. k + 1 : x < y => r[x] < r[y]
      <4> SUFFICES ASSUME NEW x \in 1 .. k + 1, NEW y \in 1 .. k + 1, x < y
                   PROVE  r[x] < r[y]
        OBVIOUS
      <4>1. x \in 1 .. k /\ (y = k + 1 \/ y \in 1 .. k)
        BY <2>1
      <4> QED
        BY <2>3, <3>3, <3>4, <4>1
    <3>6. \A v \in New : \E j \in 1 .. k + 1 : r[j] = v
      <4> SUFFICES ASSUME NEW v \in New
                   PROVE  \E j \in 1 .. k + 1 : r[j] = v
        OBVIOUS
      <4>1. CASE v = end + 1
        <5>1. k + 1 \in 1 .. k + 1
          BY <2>1
        <5> QED
          BY <3>3, <4>1, <5>1
      <4>2. CASE v # end + 1
        <5>1. PICK x \in Ch : v = S(x)
          BY <1>10, <4>2 DEF New, Ch
        <5>2. PICK j \in 1 .. k : s[j] = x
          BY <2>1
        <5>3. j \in 1 .. k + 1
          BY <2>1
        <5> QED
          BY <3>3, <5>1, <5>2, <5>3
      <4> QED
        BY <4>1, <4>2
    <3>7. M[c[S(u)]] = M[i] /\ Len(M[i]) = k + 1
      BY <1>5, <2>2, <2>5 DEF k
    <3>8. \A j \in 1 .. k + 1 : M[i][j] = c[r[j]]
      <4> SUFFICES ASSUME NEW j \in 1 .. k + 1
                   PROVE  M[i][j] = c[r[j]]
        OBVIOUS
      <4>1. CASE j = k + 1
        BY <1>5, <1>6, <2>2, <2>5, <3>3, <4>1 DEF k
      <4>2. CASE j # k + 1
        <5>1. j \in 1 .. k
          BY <2>1, <4>2
        <5>2. M[i][j] = s[j]
          BY <1>5, <2>2, <2>5, <5>1 DEF k
        <5> QED
          BY <2>3, <3>3, <5>1, <5>2
      <4> QED
        BY <4>1, <4>2
    <3>9. Ascending(r, New)
      BY <3>2, <3>5, <3>6 DEF Ascending
    <3>10. Good(S(u), r)
      BY <3>2, <3>7, <3>8, <3>9 DEF New
    <3> QED
      BY <3>2, <3>10 DEF New
  <2> QED
    BY <2>4, <2>5
<1>13. CellsAt(n + 1, new, c)
  BY <1>1, <1>6 DEF CellsAt
<1>14. \A q \in 0 .. n + 1 : \E r \in Seq(ChildrenOf(new, q)) : Good(q, r)
  <2> HIDE DEF Good
  <2> SUFFICES ASSUME NEW q \in 0 .. n + 1
               PROVE  \E r \in Seq(ChildrenOf(new, q)) : Good(q, r)
    OBVIOUS
  <2>1. CASE q = end + 1
    BY <1>11, <2>1
  <2>2. CASE q # end + 1
    <3>1. PICK u \in 0 .. n : q = S(u)
      BY <1>7, <2>2
    <3> QED
      BY <1>12, <3>1
  <2> QED
    BY <2>1, <2>2
<1> QED
  BY <1>1, <1>13, <1>14 DEF Represents, M, X, L, c

(* -a inserts at the end, as a child of the root array ...                 *)
LEMMA AddTagInserts ==
    ASSUME NEW t \in Tree, NEW tag \in Name, NEW a \in BOOLEAN
    PROVE  Inserts(t, add_tag(t, tag, a), 0, Len(t))
<1> DEFINE new == add_tag(t, tag, a)
           n == Len(t)
<1>1. n \in Nat /\ new \in Tree /\ Len(new) = n + 1
  BY TreeElements, AddTagResult
<1>2. \A j \in ChildrenOf(t, 0) : j <= n
  BY <1>1 DEF ChildrenOf, Tree
<1>3. ParentOf(new, n + 1) = 0 /\ \A k \in 1 .. n : ParentOf(new, k) = ParentOf(t, k)
  BY AddTagParents
<1> HIDE DEF new
<1>4. ASSUME NEW k \in 1 .. n
      PROVE  ParentOf(new, Shifted(n, k)) = Shifted(n, ParentOf(t, k))
  <2>1. IsParent(t, k, ParentOf(t, k))
    BY ParentOfIsParent
  <2>2. ParentOf(t, k) <= n /\ k <= n
    BY <1>1, <2>1 DEF IsParent
  <2> QED
    BY <1>3, <2>2 DEF Shifted
<1> QED
  BY <1>1, <1>2, <1>3, <1>4 DEF Inserts, new

(* ... and -p behind the descendants of the parent.                        *)
LEMMA AddToParentInserts ==
    ASSUME NEW t \in Tree, NEW i \in 1 .. Len(t), NEW tag \in Name, NEW a \in BOOLEAN
    PROVE  Inserts(t, add_to_parent(t, i, tag, a), i, EndOf(t, i))
<1> DEFINE new == add_to_parent(t, i, tag, a)
           n == Len(t)
           end == EndOf(t, i)
<1>1. /\ n \in Nat /\ new \in Tree /\ Len(new) = n + 1 /\ end \in i .. n
      /\ \A k \in 1 .. n : t[k].depth \in Nat
  BY TreeElements, AddToParentResult DEF EndOf
<1>2. ASSUME NEW j \in ChildrenOf(t, i)
      PROVE  j <= end
  <2>1. j \in 1 .. n /\ ParentOf(t, j) = i
    BY DEF ChildrenOf, Tree
  <2>2. IsParent(t, j, i)
    BY <2>1, ParentOfIsParent
  <2>3. end = n \/ t[end + 1].depth < t[i].depth + 1
    <3>1. t[i].depth + 1 \in Nat
      BY <1>1
    <3> QED
      BY <3>1, EndOfArrayBounds DEF EndOf
  <2> HIDE DEF end
  <2>4. SUFFICES ASSUME end < j PROVE FALSE
    BY <1>1, <2>1
  <2>5. end + 1 \in 1 .. n /\ end # n /\ (end + 1 = j \/ end + 1 \in i + 1 .. j - 1)
    BY <1>1, <2>1, <2>4
  <2>6. t[end + 1].depth >= t[j].depth /\ t[i].depth < t[j].depth
    <3>1. i # 0 /\ t[j].depth \in Nat
      BY <1>1, <2>1
    <3> QED
      BY <2>2, <2>5, <3>1 DEF IsParent
  <2>7. t[end + 1].depth \in Nat /\ t[j].depth \in Nat /\ t[i].depth \in Nat
    BY <1>1, <2>1, <2>5
  <2> QED
    BY <2>3, <2>5, <2>6, <2>7
<1>3. /\ ParentOf(new, end + 1) = i
      /\ \A k \in 1 .. end : ParentOf(new, k) = ParentOf(t, k)
      /\ \A k \in end + 1 .. n :
             ParentOf(new, k + 1) = IF ParentOf(t, k) <= end THEN ParentOf(t, k)
                                    ELSE ParentOf(t, k) + 1
  BY AddToParentParents DEF EndOf
<1> HIDE DEF new, end
<1>4. ASSUME NEW k \in 1 .. n
      PROVE  ParentOf(new, Shifted(end, k)) = Shifted(end, ParentOf(t, k))
  <2>1. IsParent(t, k, ParentOf(t, k))
    BY ParentOfIsParent
  <2>2. ParentOf(t, k) \in 0 .. k - 1
    BY <2>1 DEF IsParent
  <2>3. CASE k <= end
    <3>1. ParentOf(t, k) <= end /\ k \in 1 .. end
      BY <1>1, <2>2, <2>3
    <3> QED
      BY <1>3, <2>3, <3>1 DEF Shifted
  <2>4. CASE ~ (k <= end)
    <3>1. k \in end + 1 .. n
      BY <1>1, <2>4
    <3> QED
      BY <1>3, <2>4, <3>1 DEF Shifted
  <2> QED
    BY <2>3, <2>4
<1>5. i \in 0 .. n
  BY <1>1
<1> QED
  BY <1>1, <1>2, <1>3, <1>4, <1>5 DEF Inserts, new, end

(* The new cell has the tag that the new position has.                     *)
LEMMA InsertedTags ==
    ASSUME NEW t \in Tree, NEW tag \in Name, NEW a \in BOOLEAN, NEW new \in Tree,
           Len(new) = Len(t) + 1, NEW end \in 0 .. Len(t), NEW d \in Nat,
           \A k \in 1 .. Len(t) + 1 :
               new[k] = IF k <= end THEN t[k]
                        ELSE IF k = end + 1 THEN new_tag(tag, a, d)
                        ELSE t[k - 1],
           NEW g, g.tag = cJSON_New_Item(parse_array(t), tag, a).tag
    PROVE  TagsAt(g, new, InsertedAt(Len(t), end))
<1> DEFINE n == Len(t)
           h == parse_array(t)
           of(x) == [name |-> x.name, assignable |-> x.assignable]
<1>1. n \in Nat /\ NewCell(h) = n + 1 /\ DOMAIN t = 1 .. n
  <2>1. n \in Nat /\ h \in Heaps(n) /\ ParsedLists(t) \in ListsOf(n) /\ Linked(h, n, ParsedLists(t))
    BY ParseLinked
  <2> HIDE DEF h
  <2>2. NewCell(h) = n + 1
    BY <2>1, NewItemLinked
  <2> QED
    BY <2>1, <2>2 DEF Tree
<1>2. h.tag = [i \in 1 .. n |-> of(t[i])]
  BY <1>1 DEF parse_array
<1> HIDE DEF h
<1>3. g.tag = [c \in DOMAIN h.tag \cup {n + 1} |->
                  IF c = n + 1 THEN [name |-> tag, assignable |-> a] ELSE h.tag[c]]
  BY <1>1 DEF cJSON_New_Item, h
<1>4. /\ g.tag[n + 1] = [name |-> tag, assignable |-> a]
      /\ \A i \in 1 .. n : g.tag[i] = of(t[i])
  <2>1. \A i \in 1 .. n : i # n + 1
    BY <1>1
  <2> QED
    BY <1>2, <1>3, <2>1
<1> DEFINE c == InsertedAt(n, end)
<1>5. ASSUME NEW p \in 1 .. n + 1
      PROVE  g.tag[c[p]] = of(new[p])
  <2>1. p \in 0 .. n + 1
    BY <1>1
  <2>2. c[p] = IF p <= end THEN p ELSE IF p = end + 1 THEN n + 1 ELSE p - 1
    BY <2>1 DEF InsertedAt
  <2> HIDE DEF c
  <2>3. CASE p <= end
    <3>1. p \in 1 .. n
      BY <1>1, <2>3
    <3> QED
      BY <1>4, <2>2, <2>3, <3>1
  <2>4. CASE p = end + 1
    <3>1. ~ (p <= end)
      BY <1>1, <2>4
    <3>2. of(new_tag(tag, a, d)) = [name |-> tag, assignable |-> a]
      BY DEF new_tag
    <3> QED
      BY <1>4, <2>2, <2>4, <3>1, <3>2
  <2>5. CASE ~ (p <= end) /\ p # end + 1
    <3>1. p - 1 \in 1 .. n
      BY <1>1, <2>5
    <3> QED
      BY <1>4, <2>2, <2>5, <3>1
  <2> QED
    BY <2>3, <2>4, <2>5
<1> QED
  BY <1>5 DEF TagsAt

(* The position that the tag of x has after the removal of the one at i.   *)
Place(i, end, arrayEnd, x) ==
    IF x < i THEN x
    ELSE IF x <= end THEN x + (arrayEnd - end) - 1
    ELSE IF x <= arrayEnd THEN x - (end - i) - 1
    ELSE x - 1

(* Place and Origin are inverse, and keep the order of all but the         *)
(* children and those they pass.                                           *)
LEMMA PlaceOfOrigin ==
    ASSUME NEW n \in Nat, NEW i \in 1 .. n, NEW end \in i .. n, NEW arrayEnd \in end .. n
    PROVE  LET P(x) == Place(i, end, arrayEnd, x)
               O(p) == Origin(i, end, arrayEnd, p)
           IN  /\ O(0) = 0
               /\ \A p \in 0 .. n - 1 : O(p) \in 0 .. n /\ O(p) # i /\ P(O(p)) = p
               /\ \A p \in 1 .. n - 1 : O(p) \in 1 .. n
               /\ \A x \in 0 .. n : x # i => P(x) \in 0 .. n - 1 /\ O(P(x)) = x
               /\ \A x \in 1 .. n : x # i => P(x) \in 1 .. n - 1
               /\ \A x, y \in 0 .. n : x # i /\ y # i /\ x < y =>
                      P(x) < P(y) \/ (x \in i + 1 .. end /\ y \in end + 1 .. arrayEnd)
               /\ \A x \in i + 1 .. end, y \in 0 .. n :
                      y < i \/ y \in end + 1 .. arrayEnd => P(y) < P(x)
<1> DEFINE P(x) == Place(i, end, arrayEnd, x)
           O(p) == Origin(i, end, arrayEnd, p)
<1>1. /\ i \in Nat /\ end \in Nat /\ arrayEnd \in Nat
      /\ 1 <= i /\ i <= end /\ end <= arrayEnd /\ arrayEnd <= n
  OBVIOUS
<1>2. O(0) = 0
  BY <1>1 DEF Origin
<1>3. ASSUME NEW p \in 0 .. n - 1
      PROVE  O(p) \in 0 .. n /\ O(p) # i /\ P(O(p)) = p /\ (p # 0 => O(p) # 0)
  <2>1. p \in Nat /\ p <= n - 1
    BY <1>1
  <2>2. CASE p <= i - 1
    <3>1. O(p) = p
      BY <1>1, <2>1, <2>2 DEF Origin
    <3> QED
      BY <1>1, <2>1, <2>2, <3>1 DEF Place
  <2>3. CASE ~ (p <= i - 1) /\ p <= arrayEnd - (end - i) - 1
    <3>1. O(p) = p + (end - i) + 1
      BY <1>1, <2>1, <2>3 DEF Origin
    <3> QED
      BY <1>1, <2>1, <2>3, <3>1 DEF Place
  <2>4. CASE ~ (p <= arrayEnd - (end - i) - 1) /\ p <= arrayEnd - 1 /\ ~ (p <= i - 1)
    <3>1. O(p) = p - (arrayEnd - end) + 1
      BY <1>1, <2>1, <2>4 DEF Origin
    <3> QED
      BY <1>1, <2>1, <2>4, <3>1 DEF Place
  <2>5. CASE ~ (p <= arrayEnd - 1)
    <3>1. O(p) = p + 1
      BY <1>1, <2>1, <2>5 DEF Origin
    <3> QED
      BY <1>1, <2>1, <2>5, <3>1 DEF Place
  <2> QED
    BY <2>2, <2>3, <2>4, <2>5
<1>4. ASSUME NEW x \in 0 .. n, x # i
      PROVE  P(x) \in 0 .. n - 1 /\ O(P(x)) = x /\ (x # 0 => P(x) # 0)
  <2>1. x \in Nat /\ x <= n
    BY <1>1
  <2>2. CASE x < i
    <3>1. P(x) = x
      BY <2>2 DEF Place
    <3> QED
      BY <1>1, <2>1, <2>2, <3>1 DEF Origin
  <2>3. CASE ~ (x < i) /\ x <= end
    <3>1. P(x) = x + (arrayEnd - end) - 1
      BY <2>3 DEF Place
    <3> QED
      BY <1>1, <1>4, <2>1, <2>3, <3>1 DEF Origin
  <2>4. CASE ~ (x < i) /\ ~ (x <= end) /\ x <= arrayEnd
    <3>1. P(x) = x - (end - i) - 1
      BY <2>4 DEF Place
    <3> QED
      BY <1>1, <2>1, <2>4, <3>1 DEF Origin
  <2>5. CASE ~ (x < i) /\ ~ (x <= end) /\ ~ (x <= arrayEnd)
    <3>1. P(x) = x - 1
      BY <2>5 DEF Place
    <3> QED
      BY <1>1, <2>1, <2>5, <3>1 DEF Origin
  <2> QED
    BY <2>2, <2>3, <2>4, <2>5
<1>5. \A x, y \in 0 .. n : x # i /\ y # i /\ x < y =>
          P(x) < P(y) \/ (x \in i + 1 .. end /\ y \in end + 1 .. arrayEnd)
  BY <1>1 DEF Place
<1>6. \A x \in i + 1 .. end, y \in 0 .. n :
          y < i \/ y \in end + 1 .. arrayEnd => P(y) < P(x)
  BY <1>1 DEF Place
<1> HIDE DEF O, P
<1>7. \A p \in 1 .. n - 1 : O(p) \in 1 .. n
  <2>1. \A p \in 1 .. n - 1 : p \in 0 .. n - 1 /\ p # 0
    OBVIOUS
  <2>2. \A x \in 0 .. n : x # 0 => x \in 1 .. n
    OBVIOUS
  <2> QED
    BY <1>3, <2>1, <2>2
<1>8. \A x \in 1 .. n : x # i => P(x) \in 1 .. n - 1
  <2>1. \A x \in 1 .. n : x \in 0 .. n /\ x # 0
    OBVIOUS
  <2>2. \A p \in 0 .. n - 1 : p # 0 => p \in 1 .. n - 1
    OBVIOUS
  <2> QED
    BY <1>4, <2>1, <2>2
<1> QED
  BY <1>2, <1>3, <1>4, <1>5, <1>6, <1>7, <1>8 DEF O, P

(* Where the children of the tags are, seen from the one at i: its own are *)
(* in front of end, its siblings are not, and no tag has some of its       *)
(* children in front of end and others between end and arrayEnd.           *)
LEMMA ChildrenAround ==
    ASSUME NEW t \in Tree, WellNested(t), NEW i \in 1 .. Len(t)
    PROVE  LET end      == EndOfArray(t, i, t[i].depth + 1)
               arrayEnd == EndOfArray(t, i, t[i].depth)
           IN  /\ \A x \in ChildrenOf(t, i) : x \in i + 1 .. end
               /\ \A y \in ChildrenOf(t, ParentOf(t, i)) :
                      y # i => y < i \/ y \in end + 1 .. arrayEnd
               /\ \A o \in 0 .. Len(t) : \A x, y \in ChildrenOf(t, o) :
                      ~ (x \in i + 1 .. end /\ y \in end + 1 .. arrayEnd)
<1> DEFINE n == Len(t)
           d == t[i].depth
           end == EndOfArray(t, i, d + 1)
           arrayEnd == EndOfArray(t, i, d)
           a == ParentOf(t, i)
<1>1. /\ n \in Nat /\ \A k \in 1 .. n : t[k].depth \in Nat
      /\ d \in Nat /\ d + 1 \in Nat /\ d = t[i].depth
  BY TreeElements
<1>2. /\ end \in i .. n
      /\ \A k \in i + 1 .. end : t[k].depth >= d + 1
      /\ end = n \/ t[end + 1].depth < d + 1
  BY <1>1, EndOfArrayBounds
<1>3. /\ arrayEnd \in i .. n
      /\ \A k \in i + 1 .. arrayEnd : t[k].depth >= d
      /\ arrayEnd = n \/ t[arrayEnd + 1].depth < d
  BY <1>1, EndOfArrayBounds
<1>4. end <= arrayEnd
  BY <1>1, ChildrenEndFirst
<1>5. IsParent(t, i, a) /\ a \in 0 .. n
  <2>1. IsParent(t, i, a)
    BY ParentOfIsParent
  <2> QED
    BY <1>1, <2>1 DEF IsParent
<1>6. \A o \in 0 .. n : \A x \in ChildrenOf(t, o) :
          x \in 1 .. n /\ o < x /\ IsParent(t, x, o)
          /\ t[x].depth = IF o = 0 THEN 0 ELSE t[o].depth + 1
  BY ChildrenAt
<1>7. i \in ChildrenOf(t, a)
  BY <1>5, ParentsChild
<1> HIDE DEF end, arrayEnd, a, d
<1>8. /\ i \in Nat /\ end \in Nat /\ arrayEnd \in Nat
      /\ 1 <= i /\ i <= end /\ end <= arrayEnd /\ arrayEnd <= n
  BY <1>1, <1>2, <1>3, <1>4
<1>9. ASSUME NEW x \in ChildrenOf(t, i)
      PROVE  x \in i + 1 .. end
  <2>1. x \in 1 .. n /\ i < x /\ IsParent(t, x, i) /\ t[x].depth = d + 1
    <3>1. i \in 0 .. n /\ i # 0
      BY <1>8
    <3> QED
      BY <1>1, <1>6, <3>1
  <2>2. SUFFICES ASSUME end < x PROVE FALSE
    BY <1>8, <2>1
  <2>3. end # n /\ end + 1 \in 1 .. n /\ (end + 1 = x \/ end + 1 \in i + 1 .. x - 1)
    BY <1>8, <2>1, <2>2
  <2>4. t[end + 1].depth >= d + 1
    <3>1. end + 1 \in i + 1 .. x - 1 => t[end + 1].depth >= t[x].depth
      BY <2>1 DEF IsParent
    <3> QED
      BY <1>1, <2>1, <2>3, <3>1
  <2>5. t[end + 1].depth \in Nat /\ t[end + 1].depth < d + 1
    BY <1>1, <1>2, <2>3
  <2> QED
    BY <1>1, <2>4, <2>5
<1>10. ASSUME NEW y \in ChildrenOf(t, a), y # i
       PROVE  y < i \/ y \in end + 1 .. arrayEnd
  <2>1. y \in 1 .. n /\ a < y /\ IsParent(t, y, a) /\ t[y].depth = d
    <3>1. a < i /\ t[i].depth = IF a = 0 THEN 0 ELSE t[a].depth + 1
      BY <1>5, <1>6, <1>7
    <3> QED
      BY <1>1, <1>5, <1>6, <3>1
  <2>2. SUFFICES ASSUME i < y PROVE y \in end + 1 .. arrayEnd
    BY <1>8, <1>10, <2>1
  <2>3. ~ (y <= end)
    <3> SUFFICES ASSUME y <= end PROVE FALSE
      OBVIOUS
    <3>1. y \in i + 1 .. end
      BY <1>8, <2>1, <2>2
    <3> QED
      BY <1>1, <1>2, <2>1, <3>1
  <2>4. ~ (arrayEnd < y)
    <3> SUFFICES ASSUME arrayEnd < y PROVE FALSE
      OBVIOUS
    <3>1. a \in Nat /\ a < i
      BY <1>5, <1>8 DEF IsParent
    <3>2. /\ arrayEnd # n /\ arrayEnd + 1 \in 1 .. n
          /\ arrayEnd + 1 = y \/ arrayEnd + 1 \in a + 1 .. y - 1
      BY <1>8, <2>1, <3>1
    <3>3. t[arrayEnd + 1].depth >= d
      <4>1. arrayEnd + 1 \in a + 1 .. y - 1 => t[arrayEnd + 1].depth >= t[y].depth
        BY <2>1 DEF IsParent
      <4> QED
        BY <1>1, <2>1, <3>2, <4>1
    <3>4. t[arrayEnd + 1].depth \in Nat /\ t[arrayEnd + 1].depth < d
      BY <1>1, <1>3, <3>2
    <3> QED
      BY <1>1, <3>3, <3>4
  <2> QED
    BY <1>8, <2>1, <2>3, <2>4
<1>11. ASSUME NEW o \in 0 .. n, NEW x \in ChildrenOf(t, o), NEW y \in ChildrenOf(t, o),
              x \in i + 1 .. end, y \in end + 1 .. arrayEnd
       PROVE  FALSE
  <2>1. /\ x \in Nat /\ o < x /\ IsParent(t, x, o) /\ y \in Nat /\ o < y /\ IsParent(t, y, o)
        /\ x \in 1 .. n /\ y \in 1 .. n /\ o \in Nat
    BY <1>6, <1>8
  <2>2. t[x].depth >= d + 1 /\ t[x].depth \in Nat
    BY <1>1, <1>2, <1>11, <2>1
  <2>3. ~ (o < i)
    <3> SUFFICES ASSUME o < i PROVE FALSE
      OBVIOUS
    <3>1. i \in o + 1 .. x - 1
      BY <1>8, <1>11, <2>1
    <3>2. d >= t[x].depth
      BY <1>1, <2>1, <3>1 DEF IsParent
    <3> QED
      BY <1>1, <2>2, <3>2
  <2>4. o # 0 /\ o \in 1 .. n /\ t[o].depth \in Nat /\ t[o].depth >= d
    <3>1. o # 0 /\ o \in 1 .. n /\ (o = i \/ o \in i + 1 .. end)
      BY <1>8, <1>11, <2>1, <2>3
    <3> QED
      BY <1>1, <1>2, <3>1
  <2>5. t[y].depth > d /\ t[y].depth \in Nat
    <3>1. t[o].depth < t[y].depth /\ t[y].depth \in Nat
      BY <1>1, <2>1, <2>4 DEF IsParent
    <3> QED
      BY <1>1, <2>4, <3>1
  <2>6. end # n /\ end + 1 \in 1 .. n /\ (end + 1 = y \/ end + 1 \in o + 1 .. y - 1)
    BY <1>8, <1>11, <2>1
  <2>7. t[end + 1].depth >= t[y].depth
    <3>1. end + 1 \in o + 1 .. y - 1 => t[end + 1].depth >= t[y].depth
      BY <2>1 DEF IsParent
    <3> QED
      BY <2>5, <2>6, <3>1
  <2>8. t[end + 1].depth \in Nat /\ t[end + 1].depth < d + 1
    BY <1>1, <1>2, <2>6
  <2> QED
    BY <1>1, <2>5, <2>7, <2>8
<1> QED
  BY <1>9, <1>10, <1>11 DEF end, arrayEnd, a, d

(* The lists of t after its tag at i has left its array and some, or all,  *)
(* of its children have followed it.                                       *)
Moved(t, i, L) ==
    LET a == ParentOf(t, i)
        P == ParsedLists(t)
    IN  /\ \A b \in 0 .. Len(t) : b # a /\ b # i => L[b] = P[b]
        /\ \E k \in 1 .. Len(P[a]) : P[a][k] = i /\ L[a] \o L[i] = Without(P[a], k) \o P[i]

(* The elements of a list without one, and of another behind them.         *)
LEMMA WithoutAndMore ==
    ASSUME NEW S, NEW x \in Seq(S), NEW y \in Seq(S), NEW k \in 1 .. Len(x)
    PROVE  LET s == Without(x, k) \o y
               l == Len(x) - 1
           IN  /\ s \in Seq(S) /\ Len(s) = l + Len(y) /\ l \in Nat
               /\ \A j \in 1 .. l : s[j] = IF j < k THEN x[j] ELSE x[j + 1]
               /\ \A j \in l + 1 .. l + Len(y) : s[j] = y[j - l]
<1> DEFINE w == Without(x, k)
           l == Len(x) - 1
           s == w \o y
<1>1. /\ Len(x) \in Nat /\ Len(y) \in Nat /\ l \in Nat /\ k \in Nat /\ 1 <= k /\ k <= l + 1
      /\ \A j \in 1 .. Len(x) : x[j] \in S
  OBVIOUS
<1>2. w = [j \in 1 .. l |-> IF j < k THEN x[j] ELSE x[j + 1]]
  BY DEF Without
<1>3. \A j \in 1 .. l : (IF j < k THEN x[j] ELSE x[j + 1]) \in S
  <2>1. \A j \in 1 .. l : j \in 1 .. Len(x) /\ j + 1 \in 1 .. Len(x)
    BY <1>1
  <2> QED
    BY <1>1, <2>1
<1> HIDE DEF w
<1>4. w \in Seq(S) /\ Len(w) = l /\ \A j \in 1 .. l : w[j] = IF j < k THEN x[j] ELSE x[j + 1]
  BY <1>1, <1>2, <1>3
<1> HIDE DEF l
<1>5. /\ s \in Seq(S) /\ Len(s) = Len(w) + Len(y)
      /\ \A j \in 1 .. Len(w) + Len(y) : s[j] = IF j <= Len(w) THEN w[j] ELSE y[j - Len(w)]
  BY <1>4, ConcatProperties
<1> HIDE DEF s
<1>6. \A j \in 1 .. l : j \in 1 .. l + Len(y) /\ j <= l
  BY <1>1
<1>7. \A j \in l + 1 .. l + Len(y) : j \in 1 .. l + Len(y) /\ ~ (j <= l)
  BY <1>1
<1>8. \A j \in 1 .. l : s[j] = w[j]
  BY <1>4, <1>5, <1>6
<1>9. \A j \in l + 1 .. l + Len(y) : s[j] = y[j - l]
  BY <1>4, <1>5, <1>7
<1> QED
  BY <1>1, <1>4, <1>5, <1>8, <1>9 DEF s, w, l

OriginsOf(n, i, end, arrayEnd) == [p \in 0 .. n - 1 |-> Origin(i, end, arrayEnd, p)]

(* When all of its children have followed, the lists represent what        *)
(* remove_tag makes of the tree.                                           *)
LEMMA RemovedRepresents ==
    ASSUME NEW t \in Tree, WellNested(t), NEW i \in 1 .. Len(t),
           NEW L \in ListsOf(Len(t)), Moved(t, i, L), L[i] = << >>
    PROVE  Represents(Len(t), L, remove_tag(t, i),
                      OriginsOf(Len(t), i, EndOfArray(t, i, t[i].depth + 1),
                                EndOfArray(t, i, t[i].depth)))
<1> DEFINE n == Len(t)
           end == EndOfArray(t, i, t[i].depth + 1)
           arrayEnd == EndOfArray(t, i, t[i].depth)
           new == remove_tag(t, i)
           c == OriginsOf(n, i, end, arrayEnd)
           a == ParentOf(t, i)
           L0 == ParsedLists(t)
           O(p) == Origin(i, end, arrayEnd, p)
           P(x) == Place(i, end, arrayEnd, x)
           left(x) == IF ParentOf(t, x) = i THEN a ELSE ParentOf(t, x)
<1>1. /\ n \in Nat /\ new \in Tree /\ Len(new) = n - 1
      /\ end \in i .. n /\ arrayEnd \in end .. n
      /\ DOMAIN t = 1 .. n /\ DOMAIN new = 1 .. n - 1
  <2>1. n \in Nat /\ new \in Tree /\ Len(new) = n - 1 /\ end \in i .. n /\ arrayEnd \in end .. n
    BY TreeElements, RemoveTagResult
  <2> HIDE DEF new
  <2> QED
    BY <2>1 DEF Tree
<1>2. \A v \in 1 .. n - 1 : O(ParentOf(new, v)) = left(O(v)) /\ ParentOf(new, v) \in 0 .. n - 1
  <2> SUFFICES ASSUME NEW v \in 1 .. n - 1
               PROVE  O(ParentOf(new, v)) = left(O(v)) /\ ParentOf(new, v) \in 0 .. n - 1
    OBVIOUS
  <2>1. O(ParentOf(new, v)) = left(O(v))
    BY RemoveTagParents DEF ParentLeft
  <2> HIDE DEF new, left
  <2>2. IsParent(new, v, ParentOf(new, v))
    BY <1>1, ParentOfIsParent
  <2>3. ParentOf(new, v) \in 0 .. n - 1
    BY <1>1, <2>2 DEF IsParent
  <2> QED
    BY <2>1, <2>3
<1>3. /\ \A x \in ChildrenOf(t, i) : x \in i + 1 .. end
      /\ \A y \in ChildrenOf(t, a) : y # i => y < i \/ y \in end + 1 .. arrayEnd
      /\ \A o \in 0 .. n : \A x, y \in ChildrenOf(t, o) :
             ~ (x \in i + 1 .. end /\ y \in end + 1 .. arrayEnd)
  BY ChildrenAround
<1>4. a \in 0 .. n /\ a # i
  <2>1. IsParent(t, i, a)
    BY ParentOfIsParent
  <2> QED
    BY <1>1, <2>1 DEF IsParent
<1>5. /\ \A b \in 0 .. n : b # a /\ b # i => L[b] = L0[b]
      /\ \E k \in 1 .. Len(L0[a]) : L0[a][k] = i /\ L[a] \o L[i] = Without(L0[a], k) \o L0[i]
  BY DEF Moved
<1>6. \A b \in 0 .. n : /\ L0[b] \in Seq(1 .. n) /\ Len(L0[b]) \in Nat
                        /\ \A j \in 1 .. Len(L0[b]) : L0[b][j] \in ChildrenOf(t, b)
                        /\ \A x, y \in 1 .. Len(L0[b]) : x < y => L0[b][x] < L0[b][y]
                        /\ \A u \in ChildrenOf(t, b) : \E j \in 1 .. Len(L0[b]) : L0[b][j] = u
  BY ParsedListsAscending DEF Ascending
<1>7. \A b \in 0 .. n : \A u : u \in ChildrenOf(t, b) <=> u \in 1 .. n /\ ParentOf(t, u) = b
  BY <1>1 DEF ChildrenOf
<1> HIDE DEF end, arrayEnd, new, L0, a
<1>8. /\ O(0) = 0
      /\ \A p \in 0 .. n - 1 : O(p) \in 0 .. n /\ O(p) # i /\ P(O(p)) = p
      /\ \A p \in 1 .. n - 1 : O(p) \in 1 .. n
      /\ \A x \in 0 .. n : x # i => P(x) \in 0 .. n - 1 /\ O(P(x)) = x
      /\ \A x \in 1 .. n : x # i => P(x) \in 1 .. n - 1
      /\ \A x, y \in 0 .. n : x # i /\ y # i /\ x < y =>
             P(x) < P(y) \/ (x \in i + 1 .. end /\ y \in end + 1 .. arrayEnd)
      /\ \A x \in i + 1 .. end, y \in 0 .. n :
             y < i \/ y \in end + 1 .. arrayEnd => P(y) < P(x)
  BY <1>1, PlaceOfOrigin
<1>9. c \in [0 .. n - 1 -> 0 .. n] /\ \A p \in 0 .. n - 1 : c[p] = O(p)
  BY <1>8 DEF OriginsOf
<1> HIDE DEF c, O, P
\* The children in the new tree, in terms of the old one.
<1>10. ASSUME NEW q \in 0 .. n - 1
       PROVE  /\ \A u \in 1 .. n : u # i /\ left(u) = O(q) => P(u) \in ChildrenOf(new, q)
              /\ \A v \in ChildrenOf(new, q) : O(v) \in 1 .. n /\ left(O(v)) = O(q) /\ P(O(v)) = v
  <2> HIDE DEF left
  <2>1. ASSUME NEW u \in 1 .. n, u # i, left(u) = O(q)
        PROVE  P(u) \in ChildrenOf(new, q)
    <3>1. P(u) \in 1 .. n - 1 /\ O(P(u)) = u
      <4>1. u \in 0 .. n
        BY <1>1
      <4> QED
        BY <1>8, <2>1, <4>1
    <3>2. O(ParentOf(new, P(u))) = O(q) /\ ParentOf(new, P(u)) \in 0 .. n - 1
      BY <1>2, <2>1, <3>1
    <3>3. ParentOf(new, P(u)) = q
      BY <1>8, <3>2
    <3> QED
      BY <1>1, <3>1, <3>3 DEF ChildrenOf
  <2>2. ASSUME NEW v \in ChildrenOf(new, q)
        PROVE  O(v) \in 1 .. n /\ left(O(v)) = O(q) /\ P(O(v)) = v
    <3>1. v \in 1 .. n - 1 /\ ParentOf(new, v) = q
      BY <1>1 DEF ChildrenOf
    <3>2. v \in 0 .. n - 1
      BY <1>1, <3>1
    <3> QED
      BY <1>2, <1>8, <3>1, <3>2
  <2> QED
    BY <2>1, <2>2
<1> DEFINE Good(q, r) == /\ Ascending(r, ChildrenOf(new, q))
                         /\ Len(L[c[q]]) = Len(r)
                         /\ \A j \in 1 .. Len(r) : L[c[q]][j] = c[r[j]]
\* It is enough that the list has the right cells in the right order.
<1>11. ASSUME NEW q \in 0 .. n - 1, NEW s, s = L[O(q)], Len(s) \in Nat,
              \A j \in 1 .. Len(s) : s[j] \in 1 .. n /\ s[j] # i /\ left(s[j]) = O(q),
              \A x, y \in 1 .. Len(s) : x < y => P(s[x]) < P(s[y]),
              \A u \in 1 .. n : u # i /\ left(u) = O(q) => \E j \in 1 .. Len(s) : s[j] = u
       PROVE  \E r \in Seq(ChildrenOf(new, q)) : Good(q, r)
  <2> HIDE DEF left
  <2> DEFINE k == Len(s)
             New == ChildrenOf(new, q)
             r == [j \in 1 .. k |-> P(s[j])]
  <2>1. \A j \in 1 .. k : /\ P(s[j]) \in New /\ P(s[j]) \in 0 .. n - 1
                          /\ c[P(s[j])] = s[j]
    <3> SUFFICES ASSUME NEW j \in 1 .. k
                 PROVE  P(s[j]) \in New /\ P(s[j]) \in 0 .. n - 1 /\ c[P(s[j])] = s[j]
      OBVIOUS
    <3>1. s[j] \in 0 .. n /\ s[j] # i /\ s[j] \in 1 .. n
      BY <1>1, <1>11
    <3> QED
      BY <1>8, <1>9, <1>10, <1>11, <3>1, SMTT(20)
  <2>2. r \in Seq(New) /\ Len(r) = k /\ \A j \in 1 .. k : r[j] = P(s[j])
    BY <1>11, <2>1
  <2> HIDE DEF r, k
  <2>3. \A v \in New : \E j \in 1 .. k : r[j] = v
    <3> SUFFICES ASSUME NEW v \in New
                 PROVE  \E j \in 1 .. k : r[j] = v
      OBVIOUS
    <3>1. O(v) \in 1 .. n /\ left(O(v)) = O(q) /\ P(O(v)) = v /\ O(v) # i
      <4>1. O(v) \in 1 .. n /\ left(O(v)) = O(q) /\ P(O(v)) = v
        BY <1>10
      <4>2. v \in 0 .. n - 1
        BY <1>1 DEF ChildrenOf
      <4> QED
        BY <1>8, <4>1, <4>2
    <3>2. PICK j \in 1 .. k : s[j] = O(v)
      BY <1>11, <3>1 DEF k
    <3> QED
      BY <2>2, <3>1, <3>2
  <2> HIDE DEF New
  <2>4. Ascending(r, New)
    BY <1>11, <2>2, <2>3 DEF Ascending, k
  <2>5. L[c[q]] = s
    BY <1>9, <1>11
  <2>6. \A j \in 1 .. k : L[c[q]][j] = c[r[j]]
    BY <2>1, <2>2, <2>5
  <2>7. Len(L[c[q]]) = k
    BY <2>5 DEF k
  <2> QED
    BY <2>2, <2>4, <2>6, <2>7 DEF New
<1> HIDE DEF Good
\* A list that nothing happened to.
<1>12. ASSUME NEW q \in 0 .. n - 1, O(q) # a
       PROVE  \E r \in Seq(ChildrenOf(new, q)) : Good(q, r)
  <2> DEFINE o == O(q)
             s == L0[o]
  <2>1. o \in 0 .. n /\ o # i /\ o # a
    BY <1>8, <1>12
  <2> HIDE DEF o
  <2>2. s = L[o]
    BY <1>5, <2>1
  <2>3. Len(s) \in Nat
    BY <1>6, <2>1
  <2>4. ASSUME NEW j \in 1 .. Len(s)
        PROVE  s[j] \in 1 .. n /\ s[j] # i /\ left(s[j]) = o /\ s[j] \in ChildrenOf(t, o)
    <3>1. s[j] \in ChildrenOf(t, o)
      BY <1>6, <2>1
    <3> HIDE DEF s
    <3>2. s[j] \in 1 .. n /\ ParentOf(t, s[j]) = o
      BY <1>7, <2>1, <3>1
    <3> QED
      BY <2>1, <3>1, <3>2 DEF a
  <2>5. \A x, y \in 1 .. Len(s) : x < y => P(s[x]) < P(s[y])
    <3> SUFFICES ASSUME NEW x \in 1 .. Len(s), NEW y \in 1 .. Len(s), x < y
                 PROVE  P(s[x]) < P(s[y])
      OBVIOUS
    <3>1. s[x] < s[y]
      BY <1>6, <2>1
    <3>2. s[x] \in ChildrenOf(t, o) /\ s[y] \in ChildrenOf(t, o) /\ s[x] # i /\ s[y] # i
          /\ s[x] \in 1 .. n /\ s[y] \in 1 .. n
      BY <2>4
    <3> HIDE DEF s
    <3>3. s[x] \in 0 .. n /\ s[y] \in 0 .. n
      BY <1>1, <3>2
    <3>4. ~ (s[x] \in i + 1 .. end /\ s[y] \in end + 1 .. arrayEnd)
      BY <1>3, <2>1, <3>2
    <3> QED
      BY <1>8, <3>1, <3>2, <3>3, <3>4
  <2>6. ASSUME NEW u \in 1 .. n, u # i, left(u) = o
        PROVE  \E j \in 1 .. Len(s) : s[j] = u
    <3>1. ParentOf(t, u) = o
      BY <2>1, <2>6
    <3>2. u \in ChildrenOf(t, o)
      BY <1>7, <2>1, <3>1
    <3> QED
      BY <1>6, <2>1, <3>2
  <2> HIDE DEF s, left
  <2> QED
    BY <1>11, <2>2, <2>3, <2>4, <2>5, <2>6 DEF o
\* The list that the tag has left and its children have joined.
<1>13. ASSUME NEW q \in 0 .. n - 1, O(q) = a
       PROVE  \E r \in Seq(ChildrenOf(new, q)) : Good(q, r)
  <2> DEFINE x == L0[a]
             y == L0[i]
             l == Len(x) - 1
             s == L[a]
  <2>1. PICK k \in 1 .. Len(x) : x[k] = i /\ s \o L[i] = Without(x, k) \o y
    BY <1>5
  <2>2. i \in 0 .. n
    BY <1>1
  <2>3. /\ x \in Seq(1 .. n) /\ Len(x) \in Nat /\ y \in Seq(1 .. n) /\ Len(y) \in Nat
        /\ \A j \in 1 .. Len(x) : x[j] \in ChildrenOf(t, a)
        /\ \A u, v \in 1 .. Len(x) : u < v => x[u] < x[v]
        /\ \A u \in ChildrenOf(t, a) : \E j \in 1 .. Len(x) : x[j] = u
        /\ \A j \in 1 .. Len(y) : y[j] \in ChildrenOf(t, i)
        /\ \A u, v \in 1 .. Len(y) : u < v => y[u] < y[v]
        /\ \A u \in ChildrenOf(t, i) : \E j \in 1 .. Len(y) : y[j] = u
    BY <1>4, <1>6, <2>2
  <2>4. s = Without(x, k) \o y
    <3>1. s \in Seq(1 .. n)
      BY <1>4 DEF ListsOf
    <3> HIDE DEF s
    <3>2. s \o << >> = s
      BY <3>1
    <3> QED
      BY <2>1, <3>2
  <2> HIDE DEF x, y, s
  <2>5. /\ Len(s) = l + Len(y) /\ l \in Nat
        /\ \A j \in 1 .. l : s[j] = IF j < k THEN x[j] ELSE x[j + 1]
        /\ \A j \in l + 1 .. l + Len(y) : s[j] = y[j - l]
    <3> DEFINE w == Without(x, k) \o y
    <3>1. x \in Seq(1 .. n) /\ y \in Seq(1 .. n) /\ k \in 1 .. Len(x)
      BY <2>3
    <3>2. /\ Len(w) = l + Len(y) /\ l \in Nat
          /\ \A j \in 1 .. l : w[j] = IF j < k THEN x[j] ELSE x[j + 1]
          /\ \A j \in l + 1 .. l + Len(y) : w[j] = y[j - l]
      BY <3>1, WithoutAndMore, SMTT(20)
    <3> HIDE DEF l
    <3> QED
      BY <2>4, <3>2, Zenon
  <2>6. k \in Nat /\ 1 <= k /\ k <= l + 1 /\ Len(x) = l + 1 /\ Len(y) \in Nat
    BY <2>3
  <2> DEFINE at(j) == IF j < k THEN j ELSE j + 1
  <2>7. \A j \in 1 .. l : at(j) \in 1 .. Len(x) /\ at(j) # k /\ s[j] = x[at(j)]
    <3>1. \A j \in 1 .. l : at(j) \in 1 .. Len(x) /\ at(j) # k
      BY <2>6
    <3> QED
      BY <2>5, <3>1
  <2>8. \A u, v \in 1 .. l : u < v => at(u) < at(v)
    BY <2>6
  <2>9. \A j \in 1 .. Len(x) : j # k => \E u \in 1 .. l : at(u) = j
    <3> SUFFICES ASSUME NEW j \in 1 .. Len(x), j # k
                 PROVE  \E u \in 1 .. l : at(u) = j
      OBVIOUS
    <3>1. CASE j < k
      <4>1. j \in 1 .. l /\ at(j) = j
        BY <2>6, <3>1
      <4> QED
        BY <4>1
    <3>2. CASE ~ (j < k)
      <4>1. j - 1 \in 1 .. l /\ at(j - 1) = j
        BY <2>6, <3>2
      <4> QED
        BY <4>1
    <3> QED
      BY <3>1, <3>2
  <2>10. \A j \in 1 .. Len(x) : j # k => x[j] # i
    <3> SUFFICES ASSUME NEW j \in 1 .. Len(x), j # k
                 PROVE  x[j] # i
      OBVIOUS
    <3>1. x[j] < i \/ i < x[j]
      <4>1. j < k \/ k < j
        BY <2>6
      <4> QED
        BY <2>1, <2>3, <4>1
    <3> QED
      BY <3>1
  <2> HIDE DEF l, at
  <2>11. \A j \in 1 .. l : s[j] \in ChildrenOf(t, a) /\ s[j] # i
    BY <2>3, <2>7, <2>10, SMTT(20)
  <2>12. \A j \in l + 1 .. l + Len(y) : j - l \in 1 .. Len(y) /\ s[j] \in ChildrenOf(t, i)
    <3>1. \A j \in l + 1 .. l + Len(y) : j - l \in 1 .. Len(y)
      BY <2>5, <2>6
    <3> QED
      BY <2>3, <2>5, <3>1
  <2>13. \A j \in 1 .. Len(s) : j \in 1 .. l \/ j \in l + 1 .. l + Len(y)
    BY <2>5, <2>6
  <2>14. Len(s) \in Nat /\ \A j \in 1 .. l : j \in 1 .. Len(s)
    BY <2>5, <2>6
  <2>15. ASSUME NEW j \in 1 .. Len(s)
         PROVE  s[j] \in 1 .. n /\ s[j] # i /\ left(s[j]) = a /\ s[j] \in 0 .. n
    <3>1. CASE j \in 1 .. l
      <4>1. s[j] \in 1 .. n /\ ParentOf(t, s[j]) = a /\ s[j] # i
        BY <1>4, <1>7, <2>11, <3>1
      <4>2. s[j] \in 0 .. n
        BY <1>1, <4>1
      <4> QED
        BY <1>4, <4>1, <4>2
    <3>2. CASE j \in l + 1 .. l + Len(y)
      <4>1. s[j] \in 1 .. n /\ ParentOf(t, s[j]) = i
        BY <1>7, <2>2, <2>12, <3>2
      <4>2. s[j] # i
        BY <1>4, <4>1 DEF a
      <4>3. s[j] \in 0 .. n
        BY <1>1, <4>1
      <4> QED
        BY <4>1, <4>2, <4>3
    <3> QED
      BY <2>13, <3>1, <3>2
  <2>16. ASSUME NEW u \in 1 .. Len(s), NEW v \in 1 .. Len(s), u < v
         PROVE  P(s[u]) < P(s[v])
    <3>1. s[u] \in 0 .. n /\ s[v] \in 0 .. n /\ s[u] # i /\ s[v] # i
      BY <2>15
    <3>2. CASE u \in 1 .. l /\ v \in 1 .. l
      <4>1. s[u] < s[v]
        BY <2>3, <2>7, <2>8, <2>16, <3>2
      <4>2. ~ (s[u] \in i + 1 .. end /\ s[v] \in end + 1 .. arrayEnd)
        BY <1>3, <1>4, <2>11, <3>2
      <4> QED
        BY <1>8, <3>1, <4>1, <4>2
    <3>3. CASE u \in 1 .. l /\ v \in l + 1 .. l + Len(y)
      <4>1. s[v] \in i + 1 .. end
        BY <1>3, <2>12, <3>3
      <4>2. s[u] < i \/ s[u] \in end + 1 .. arrayEnd
        BY <1>3, <2>11, <3>3
      <4> QED
        BY <1>8, <3>1, <4>1, <4>2
    <3>4. CASE u \in l + 1 .. l + Len(y) /\ v \in l + 1 .. l + Len(y)
      <4>1. u - l < v - l /\ u - l \in 1 .. Len(y) /\ v - l \in 1 .. Len(y)
        BY <2>5, <2>6, <2>16, <3>4
      <4>2. s[u] < s[v]
        BY <2>3, <2>5, <3>4, <4>1
      <4>3. ~ (s[u] \in i + 1 .. end /\ s[v] \in end + 1 .. arrayEnd)
        BY <1>3, <2>2, <2>12, <3>4
      <4> QED
        BY <1>8, <3>1, <4>2, <4>3
    <3>5. ~ (u \in l + 1 .. l + Len(y) /\ v \in 1 .. l)
      BY <2>5, <2>6, <2>16
    <3> QED
      BY <2>13, <3>2, <3>3, <3>4, <3>5
  <2>17. ASSUME NEW u \in 1 .. n, u # i, left(u) = a
         PROVE  \E j \in 1 .. Len(s) : s[j] = u
    <3>1. CASE ParentOf(t, u) = i
      <4>1. u \in ChildrenOf(t, i)
        BY <1>7, <2>2, <3>1
      <4>2. PICK j \in 1 .. Len(y) : y[j] = u
        BY <2>3, <4>1
      <4>3. l + j \in l + 1 .. l + Len(y) /\ (l + j) - l = j /\ l + j \in 1 .. Len(s)
        BY <2>5, <2>6
      <4> QED
        BY <2>5, <4>2, <4>3
    <3>2. CASE ParentOf(t, u) # i
      <4>1. u \in ChildrenOf(t, a)
        BY <1>4, <1>7, <2>17, <3>2
      <4>2. PICK j \in 1 .. Len(x) : x[j] = u
        BY <2>3, <4>1
      <4>3. j # k
        BY <2>1, <2>17, <4>2
      <4>4. PICK v \in 1 .. l : at(v) = j
        BY <2>9, <4>3
      <4> QED
        BY <2>7, <2>14, <4>2, <4>4
    <3> QED
      BY <3>1, <3>2
  <2> HIDE DEF left
  <2>18. s = L[O(q)]
    BY <1>13 DEF s
  <2> QED
    BY <1>11, <1>13, <2>14, <2>15, <2>16, <2>17, <2>18
<1>14. \A q \in 0 .. n - 1 : \E r \in Seq(ChildrenOf(new, q)) : Good(q, r)
  BY <1>12, <1>13
<1>15. CellsAt(n, new, c)
  <2>1. \A p \in 1 .. n - 1 : p \in 0 .. n - 1 /\ 0 \in 0 .. n - 1
    BY <1>1
  <2>2. 0 \in 0 .. n - 1
    BY <1>1
  <2> QED
    BY <1>1, <1>8, <1>9, <2>1, <2>2 DEF CellsAt
<1> QED
  BY <1>1, <1>14, <1>15 DEF Represents, Good, new, c, end, arrayEnd

(* The tags are those they were.                                           *)
LEMMA RemovedTags ==
    ASSUME NEW t \in Tree, NEW i \in 1 .. Len(t), NEW g, g.tag = parse_array(t).tag
    PROVE  TagsAt(g, remove_tag(t, i),
                  OriginsOf(Len(t), i, EndOfArray(t, i, t[i].depth + 1),
                            EndOfArray(t, i, t[i].depth)))
<1> DEFINE n == Len(t)
           end == EndOfArray(t, i, t[i].depth + 1)
           arrayEnd == EndOfArray(t, i, t[i].depth)
           new == remove_tag(t, i)
           O(p) == Origin(i, end, arrayEnd, p)
           of(x) == [name |-> x.name, assignable |-> x.assignable]
<1>1. /\ n \in Nat /\ Len(new) = n - 1
      /\ end \in i .. n /\ arrayEnd \in end .. n
      /\ \A k \in 1 .. n - 1 :
             new[k] = IF O(k) \in i + 1 .. end THEN [t[O(k)] EXCEPT !.depth = @ - 1] ELSE t[O(k)]
  BY TreeElements, RemoveTagResult
<1>2. DOMAIN t = 1 .. n /\ \A k \in 1 .. n : t[k] \in Tag
  BY TreeElements DEF Tree
<1>3. g.tag = [k \in 1 .. n |-> of(t[k])]
  BY <1>2 DEF parse_array
<1> HIDE DEF end, arrayEnd, new
<1>4. ASSUME NEW p \in 1 .. n - 1
      PROVE  g.tag[OriginsOf(n, i, end, arrayEnd)[p]] = of(new[p])
  <2> DEFINE o == O(p)
  <2>1. o \in 1 .. n
    BY <1>1, OriginInTree
  <2>2. OriginsOf(n, i, end, arrayEnd)[p] = o
    BY <1>1 DEF OriginsOf
  <2> HIDE DEF o
  <2>3. g.tag[o] = of(t[o])
    BY <1>3, <2>1
  <2>4. new[p].name = t[o].name /\ new[p].assignable = t[o].assignable
    <3>1. t[o] \in Tag
      BY <1>2, <2>1
    <3>2. new[p] = IF o \in i + 1 .. end THEN [t[o] EXCEPT !.depth = @ - 1] ELSE t[o]
      BY <1>1 DEF o
    <3> QED
      BY <3>1, <3>2 DEF Tag
  <2> QED
    BY <2>2, <2>3, <2>4
<1> QED
  BY <1>1, <1>4 DEF TagsAt, new, end, arrayEnd

(***************************************************************************)
(* What the pointers have come to, in terms of the file: the second        *)
(* inductive invariant.                                                    *)
(***************************************************************************)

(* While the children of a tag move, the tag is where the file has it, the *)
(* array is its parent's, and the lists are those of the file with some of *)
(* the children behind the siblings.                                       *)
Moving(L) ==
    LET i == held.object
    IN  /\ Lists(Len(file), L) /\ Reattaching(Len(file), L)
        /\ cmd.op = "r" /\ get_tag(file, cmd.tag) = i
        /\ i \in 1 .. Len(file) /\ held.array = ParentOf(file, i)
        /\ Moved(file, i, L)
        /\ heap.tag = parse_array(file).tag

(* Afterwards the text of the cells is the file edited by the command.     *)
Edited ==
    \/ /\ cmd.op = "a"
       /\ get_tag(file, cmd.tag) = 0
       /\ cJSON_Print(heap) = add_tag(file, cmd.tag, cmd.assignable)
    \/ /\ cmd.op = "p"
       /\ get_tag(file, cmd.parent) # 0 /\ get_tag(file, cmd.tag) = 0
       /\ cJSON_Print(heap) =
              add_to_parent(file, get_tag(file, cmd.parent), cmd.tag, cmd.assignable)
    \/ /\ cmd.op = "r"
       /\ get_tag(file, cmd.tag) # 0
       /\ cJSON_Print(heap) = remove_tag(file, get_tag(file, cmd.tag))

FileInv ==
    /\ WellNested(file)
    /\ pc = "parsed" => heap = parse_array(file)
    /\ pc = "reattach" => \E L \in ListsOf(Len(file)) : Moving(L)
    /\ pc = "changed" => Edited

(* The parts of a command line.                                            *)
LEMMA CommandParts ==
    ASSUME NEW c \in Command
    PROVE  /\ c.op = "a" \/ c.op = "p" \/ c.op = "r"
           /\ c.tag \in Name
           /\ c.op = "a" \/ c.op = "p" => c.assignable \in BOOLEAN
           /\ c.op = "p" => c.parent \in Name
BY CommandAssumption

(* Before the first change the cells are those of the file.                *)
LEMMA ParsedFile ==
    ASSUME IInv, FileInv, pc = "parsed"
    PROVE  LET m == Len(file)
               L == ParsedLists(file)
           IN  /\ file \in Tree /\ WellNested(file) /\ heap = parse_array(file)
               /\ m \in Nat /\ L \in ListsOf(m)
               /\ Lists(m, L) /\ Parsed(m, L)
<1>1. file \in Tree /\ WellNested(file) /\ heap = parse_array(file)
  BY DEF IInv, FileInv
<1>2. freed = << >>
  <2>1. PICK n \in Nat : \E N \in ListsOf(n) : Shape(n, N)
    BY DEF IInv
  <2>2. PICK N \in ListsOf(n) : Shape(n, N)
    BY <2>1
  <2> QED
    BY <2>2 DEF Shape, Parsed
<1> QED
  BY <1>1, <1>2, ParseLinked DEF Lists, Parsed

(* There a tag is found if the file has it, and in its cell.               *)
LEMMA FoundInFile ==
    ASSUME IInv, FileInv, pc = "parsed", NEW tag
    PROVE  /\ get_tag(file, tag) \in 0 .. Len(file)
           /\ Has(tag) <=> get_tag(file, tag) # 0
           /\ Has(tag) => get_tag_cell(heap, tag) = get_tag(file, tag)
<1>1. file \in Tree /\ WellNested(file) /\ heap = parse_array(file)
  BY ParsedFile
<1>2. get_tag(file, tag) \in 0 .. Len(file)
  BY <1>1, GetTagFinds
<1>3. get_tag_cell(heap, tag) = IF get_tag(file, tag) = 0 THEN Null ELSE get_tag(file, tag)
  BY <1>1, ParsedFound
<1>4. get_tag(file, tag) # Null
  BY <1>2, NullAssumption
<1> QED
  BY <1>2, <1>3, <1>4 DEF Has

(* A tag inserted in the file and the new cell.                            *)
LEMMA InsertedPrinted ==
    ASSUME NEW m \in Nat, NEW t \in Tree, m = Len(t), heap = parse_array(t),
           Lists(m, ParsedLists(t)), Parsed(m, ParsedLists(t)),
           cmd.tag \in Name, cmd.assignable \in BOOLEAN,
           NEW i \in 0 .. m, AppendTag(i),
           NEW new, NEW end, Inserts(t, new, i, end), WellNested(new), NEW d \in Nat,
           \A k \in 1 .. Len(t) + 1 :
               new[k] = IF k <= end THEN t[k]
                        ELSE IF k = end + 1 THEN new_tag(cmd.tag, cmd.assignable, d)
                        ELSE t[k - 1]
    PROVE  cJSON_Print(heap)' = new
<1>1. PICK P : P = ParsedLists(t)
  OBVIOUS
<1>2. P \in ListsOf(m) /\ Lists(m, P) /\ Parsed(m, P)
  BY <1>1 DEF Lists
<1>3. \E n \in Nat : \E M \in ListsOf(n) :
          /\ n = m + 1 /\ M = Appended(Extended(P, m), i, n)
          /\ heap'.tag = cJSON_New_Item(heap, cmd.tag, cmd.assignable).tag
          /\ Shape(n, M)'
  BY <1>2, AppendTagShape
<1>4. PICK n \in Nat : n = m + 1
  OBVIOUS
<1>5. PICK M \in ListsOf(n) :
          /\ M = Appended(Extended(P, m), i, n)
          /\ heap'.tag = cJSON_New_Item(heap, cmd.tag, cmd.assignable).tag
          /\ Shape(n, M)'
  BY <1>3, <1>4
<1>6. heap' \in Heaps(n) /\ Linked(heap', n, M)
  BY <1>5 DEF Shape, Lists
<1>7. new \in Tree /\ Len(new) = n /\ end \in 0 .. Len(t)
  BY <1>4 DEF Inserts
<1>8. PICK c : c = InsertedAt(m, end)
  OBVIOUS
<1>9. Represents(n, M, new, c)
  BY <1>1, <1>4, <1>5, <1>8, InsertedRepresents
<1>10. TagsAt(heap', new, c)
  BY <1>4, <1>5, <1>7, <1>8, InsertedTags
<1>11. cJSON_Print(heap') = new
  BY <1>6, <1>7, <1>9, <1>10, RepresentedPrinted
<1> QED
  BY <1>11

(* -a makes the cells those of the tree with the new tag ...               *)
LEMMA AddTagEdits ==
    ASSUME IInv, FileInv, AddTag
    PROVE  FileInv'
<1>1. PICK t : t = file
  OBVIOUS
<1>2. pc = "parsed" /\ cmd.op = "a" /\ ~ Has(cmd.tag) /\ AppendTag(Root)
  BY DEF AddTag
<1>3. /\ t \in Tree /\ WellNested(t) /\ heap = parse_array(t)
      /\ Len(t) \in Nat /\ Lists(Len(t), ParsedLists(t)) /\ Parsed(Len(t), ParsedLists(t))
  BY <1>1, <1>2, ParsedFile
<1>4. cmd.tag \in Name /\ cmd.assignable \in BOOLEAN
  BY <1>2, CommandParts DEF IInv
<1>5. get_tag(t, cmd.tag) = 0
  BY <1>1, <1>2, FoundInFile
<1>6. PICK new : new = add_tag(t, cmd.tag, cmd.assignable)
  OBVIOUS
<1>7. Inserts(t, new, 0, Len(t)) /\ WellNested(new)
  BY <1>3, <1>4, <1>6, AddTagInserts, AddTagNested
<1>8. \A k \in 1 .. Len(t) + 1 :
          new[k] = IF k <= Len(t) THEN t[k]
                   ELSE IF k = Len(t) + 1 THEN new_tag(cmd.tag, cmd.assignable, 0)
                   ELSE t[k - 1]
  BY <1>3, <1>4, <1>6, AddTagResult
<1>9. AppendTag(0) /\ 0 \in 0 .. Len(t)
  BY <1>2, <1>3 DEF Root
<1>10. cJSON_Print(heap)' = new
  BY <1>3, <1>4, <1>7, <1>8, <1>9, InsertedPrinted, SMTT(20)
<1>11. file' = file /\ cmd' = cmd /\ pc' = "changed"
  BY <1>2 DEF AppendTag
<1>12. Edited'
  BY <1>1, <1>2, <1>5, <1>6, <1>10, <1>11 DEF Edited
<1> QED
  BY <1>1, <1>3, <1>11, <1>12 DEF FileInv

(* ... and so does -p.                                                     *)
LEMMA AddToParentEdits ==
    ASSUME IInv, FileInv, AddToParent
    PROVE  FileInv'
<1>1. PICK t : t = file
  OBVIOUS
<1>2. PICK i : i = get_tag(t, cmd.parent)
  OBVIOUS
<1>3. /\ pc = "parsed" /\ cmd.op = "p" /\ Has(cmd.parent) /\ ~ Has(cmd.tag)
      /\ AppendTag(get_tag_cell(heap, cmd.parent))
  BY DEF AddToParent
<1>4. /\ t \in Tree /\ WellNested(t) /\ heap = parse_array(t)
      /\ Len(t) \in Nat /\ Lists(Len(t), ParsedLists(t)) /\ Parsed(Len(t), ParsedLists(t))
  BY <1>1, <1>3, ParsedFile
<1>5. cmd.tag \in Name /\ cmd.assignable \in BOOLEAN
  BY <1>3, CommandParts DEF IInv
<1>6. get_tag(t, cmd.tag) = 0
  BY <1>1, <1>3, FoundInFile
<1>7. i # 0 /\ i \in 0 .. Len(t) /\ AppendTag(i)
  BY <1>1, <1>2, <1>3, FoundInFile
<1>8. i \in 1 .. Len(t)
  BY <1>4, <1>7
<1>9. PICK new : new = add_to_parent(t, i, cmd.tag, cmd.assignable)
  OBVIOUS
<1>10. Inserts(t, new, i, EndOf(t, i)) /\ WellNested(new)
  BY <1>4, <1>5, <1>8, <1>9, AddToParentInserts, AddToParentNested
<1>11. \A k \in 1 .. Len(t) + 1 :
           new[k] = IF k <= EndOf(t, i) THEN t[k]
                    ELSE IF k = EndOf(t, i) + 1
                         THEN new_tag(cmd.tag, cmd.assignable, t[i].depth + 1)
                    ELSE t[k - 1]
  BY <1>4, <1>5, <1>8, <1>9, AddToParentResult DEF EndOf
<1>12. t[i].depth + 1 \in Nat
  BY <1>4, <1>8, TreeElements
<1>13. cJSON_Print(heap)' = new
  BY <1>4, <1>5, <1>7, <1>10, <1>11, <1>12, InsertedPrinted
<1>14. file' = file /\ cmd' = cmd /\ pc' = "changed"
  BY <1>7 DEF AppendTag
<1>15. Edited'
  BY <1>1, <1>2, <1>3, <1>6, <1>7, <1>9, <1>13, <1>14 DEF Edited
<1> QED
  BY <1>1, <1>4, <1>14, <1>15 DEF FileInv

(* The tag leaves the list of its parent.                                  *)
LEMMA DetachEdits ==
    ASSUME IInv, FileInv, DetachTag
    PROVE  FileInv'
<1>1. PICK t : t = file
  OBVIOUS
<1>2. PICK m \in Nat : m = Len(t)
  BY <1>1, TreeElements DEF IInv
<1>3. PICK P : P = ParsedLists(t)
  OBVIOUS
<1>4. PICK i : i = get_tag(t, cmd.tag)
  OBVIOUS
<1>5. /\ pc = "parsed" /\ cmd.op = "r" /\ Has(cmd.tag)
      /\ file' = file /\ cmd' = cmd /\ pc' = "reattach"
  BY DEF DetachTag
<1>6. /\ t \in Tree /\ WellNested(t) /\ heap = parse_array(t)
      /\ P \in ListsOf(m) /\ Lists(m, P) /\ Parsed(m, P)
  BY <1>1, <1>2, <1>3, <1>5, ParsedFile
<1>7. i # 0 /\ i \in 0 .. m /\ get_tag_cell(heap, cmd.tag) = i
  BY <1>1, <1>2, <1>4, <1>5, FoundInFile
<1>8. i \in 1 .. m
  BY <1>7
<1>9. PICK M \in ListsOf(m), a \in 0 .. m, k \in Nat :
          /\ k \in 1 .. Len(P[a]) /\ P[a][k] = i
          /\ M = Detached(P, a, k)
          /\ held'.array = a /\ held'.object = i
          /\ heap'.tag = heap.tag
          /\ Shape(m, M)'
  BY <1>6, <1>7, DetachShape
<1>10. a = ParentOf(t, i)
  <2>1. P[a][k] \in ChildrenOf(t, a)
    BY <1>2, <1>3, <1>6, <1>9, ParsedListsAscending
  <2> QED
    BY <1>9, <2>1 DEF ChildrenOf
<1>11. a # i
  <2>1. ParentOf(t, i) \in 0 .. i - 1
    BY <1>2, <1>6, <1>8, ParentOfIsParent DEF IsParent
  <2> QED
    BY <1>8, <1>10, <2>1
<1>12. /\ \A b \in 0 .. m : b # a => M[b] = P[b]
       /\ M[a] = Without(P[a], k)
  <2>1. \A b \in 0 .. m : b # a => M[b] = P[b]
    BY <1>6, <1>9, DetachedLists
  <2>2. M[a] = Without(P[a], k)
    BY <1>6, <1>9 DEF Detached, ListsOf
  <2> QED
    BY <2>1, <2>2
<1>13. Moved(t, i, M)
  <2>1. M[i] = P[i]
    BY <1>8, <1>11, <1>12
  <2>2. M[a] \o M[i] = Without(P[a], k) \o P[i]
    BY <1>12, <2>1, Zenon
  <2> QED
    BY <1>2, <1>3, <1>9, <1>10, <1>12, <2>2 DEF Moved
<1>14. Lists(m, M)' /\ Reattaching(m, M)'
  BY <1>5, <1>9 DEF Shape
<1>15. Moving(M)'
  BY <1>1, <1>2, <1>4, <1>5, <1>6, <1>8, <1>9, <1>10, <1>13, <1>14 DEF Moving
<1>16. M \in ListsOf(Len(file'))
  BY <1>1, <1>2, <1>5, <1>9
<1> QED
  BY <1>1, <1>5, <1>6, <1>15, <1>16 DEF FileInv

(* An element that goes from the front of one list to the end of another   *)
(* stays where it is in the two put together.                              *)
LEMMA MoveFirst ==
    ASSUME NEW S, NEW s \in Seq(S), NEW t \in Seq(S), 1 \in 1 .. Len(t)
    PROVE  Append(s, t[1]) \o Without(t, 1) = s \o t
<1> DEFINE l == Len(s)
           m == Len(t)
           u == Append(s, t[1])
           v == Without(t, 1)
<1>1. l \in Nat /\ m \in Nat /\ m >= 1 /\ m - 1 \in Nat
  OBVIOUS
<1>2. \A j \in 1 .. m : t[j] \in S
  OBVIOUS
<1>3. v \in Seq(S) /\ Len(v) = m - 1 /\ \A j \in 1 .. m - 1 : v[j] = t[j + 1]
  <2>1. v = [j \in 1 .. m - 1 |-> IF j < 1 THEN t[j] ELSE t[j + 1]]
    BY DEF Without
  <2>2. \A j \in 1 .. m - 1 : ~ (j < 1) /\ j + 1 \in 1 .. m
    BY <1>1
  <2>3. v = [j \in 1 .. m - 1 |-> t[j + 1]]
    BY <2>1, <2>2
  <2> HIDE DEF v, m
  <2> QED
    BY <1>1, <1>2, <2>2, <2>3
<1>4. /\ u \in Seq(S) /\ Len(u) = l + 1
      /\ \A j \in 1 .. l : u[j] = s[j]
      /\ u[l + 1] = t[1]
  BY <1>1, <1>2
<1> HIDE DEF u, v
<1>5. /\ u \o v \in Seq(S) /\ Len(u \o v) = l + m
      /\ \A j \in 1 .. l + m : (u \o v)[j] = IF j <= l + 1 THEN u[j] ELSE v[j - (l + 1)]
  <2>1. /\ u \o v \in Seq(S) /\ Len(u \o v) = Len(u) + Len(v)
        /\ \A j \in 1 .. Len(u) + Len(v) :
               (u \o v)[j] = IF j <= Len(u) THEN u[j] ELSE v[j - Len(u)]
    BY <1>3, <1>4, ConcatProperties, Zenon
  <2>2. Len(u) = l + 1 /\ Len(u) + Len(v) = l + m
    BY <1>1, <1>3, <1>4
  <2> QED
    BY <2>1, <2>2, Zenon
<1>6. /\ s \o t \in Seq(S) /\ Len(s \o t) = l + m
      /\ \A j \in 1 .. l + m : (s \o t)[j] = IF j <= l THEN s[j] ELSE t[j - l]
  BY <1>1
<1> HIDE DEF l, m
<1>7. ASSUME NEW j \in 1 .. l + m
      PROVE  (u \o v)[j] = (s \o t)[j]
  <2>1. CASE j <= l
    <3>1. j \in 1 .. l /\ j <= l + 1
      BY <1>1, <2>1
    <3> QED
      BY <1>4, <1>5, <1>6, <2>1, <3>1
  <2>2. CASE j = l + 1
    <3>1. j - l = 1 /\ j <= l + 1 /\ ~ (j <= l)
      BY <1>1, <2>2
    <3> QED
      BY <1>4, <1>5, <1>6, <2>2, <3>1
  <2>3. CASE j > l + 1
    <3>1. /\ ~ (j <= l + 1) /\ ~ (j <= l)
          /\ j - (l + 1) \in 1 .. m - 1 /\ (j - (l + 1)) + 1 = j - l
      BY <1>1, <2>3
    <3>2. v[j - (l + 1)] = t[j - l]
      BY <1>3, <3>1
    <3> QED
      BY <1>5, <1>6, <3>1, <3>2
  <2>4. j <= l \/ j = l + 1 \/ j > l + 1
    BY <1>1
  <2> QED
    BY <2>1, <2>2, <2>3, <2>4, Zenon
<1>8. u \o v = s \o t
  BY <1>5, <1>6, <1>7, SeqEqual
<1> QED
  BY <1>8 DEF u, v

(* Each turn of the loop keeps the siblings and the children, in order.    *)
LEMMA ReattachEdits ==
    ASSUME IInv, FileInv, ReattachChild
    PROVE  FileInv'
<1>1. PICK t : t = file
  OBVIOUS
<1>2. PICK m \in Nat : m = Len(t)
  BY <1>1, TreeElements DEF IInv
<1>3. PICK P : P = ParsedLists(t)
  OBVIOUS
<1>4. /\ pc = "reattach" /\ WellNested(t) /\ t \in Tree
      /\ file' = file /\ cmd' = cmd /\ pc' = pc
  BY <1>1 DEF ReattachChild, IInv, FileInv
<1>5. PICK L \in ListsOf(m) : Moving(L)
  BY <1>1, <1>2, <1>4 DEF FileInv
<1>6. PICK i \in 1 .. m : i = held.object
  BY <1>1, <1>2, <1>5 DEF Moving
<1>7. PICK a : a = ParentOf(t, i)
  OBVIOUS
<1>8. /\ Lists(m, L) /\ Reattaching(m, L)
      /\ cmd.op = "r" /\ get_tag(t, cmd.tag) = i
      /\ held.array = a
      /\ Moved(t, i, L)
      /\ heap.tag = parse_array(t).tag
  BY <1>1, <1>2, <1>5, <1>6, <1>7 DEF Moving
<1>9. a \in 0 .. m /\ a # i /\ i \in 0 .. m
  <2>1. a \in 0 .. i - 1
    BY <1>2, <1>4, <1>6, <1>7, ParentOfIsParent DEF IsParent
  <2> QED
    BY <1>6, <2>1
<1>10. /\ 1 \in 1 .. Len(L[i])
       /\ held'.array = a /\ held'.object = i
       /\ heap'.tag = heap.tag
       /\ \E N \in ListsOf(m) :
              /\ N = Appended(Detached(L, i, 1), a, L[i][1])
              /\ Shape(m, N)'
  BY <1>6, <1>8, ReattachShape
<1>11. PICK N \in ListsOf(m) :
           /\ N = Appended(Detached(L, i, 1), a, L[i][1])
           /\ Shape(m, N)'
  BY <1>10
<1>12. /\ \A b \in 0 .. m : b # a /\ b # i => N[b] = L[b]
       /\ N[i] = Without(L[i], 1)
       /\ N[a] = Append(L[a], L[i][1])
  <2>1. PICK D : D = Detached(L, i, 1)
    OBVIOUS
  <2>2. D \in ListsOf(m) /\ \A b \in 0 .. m : b # i => D[b] = L[b]
    BY <1>9, <1>10, <2>1, DetachedLists
  <2>3. D[i] = Without(L[i], 1)
    BY <1>9, <2>1 DEF Detached, ListsOf
  <2>4. N = [D EXCEPT ![a] = Append(@, L[i][1])]
    BY <1>11, <2>1 DEF Appended
  <2>5. N[a] = Append(D[a], L[i][1]) /\ \A b \in 0 .. m : b # a => N[b] = D[b]
    BY <1>9, <2>2, <2>4 DEF ListsOf
  <2> QED
    BY <1>9, <2>2, <2>3, <2>5
<1>13. N[a] \o N[i] = L[a] \o L[i]
  <2>1. L[a] \in Seq(1 .. m) /\ L[i] \in Seq(1 .. m)
    BY <1>9, ListElements
  <2>2. Append(L[a], L[i][1]) \o Without(L[i], 1) = L[a] \o L[i]
    BY <1>10, <2>1, MoveFirst
  <2> QED
    BY <1>12, <2>2
<1>14. Moved(t, i, N)
  <2>1. \A b \in 0 .. m : b # a /\ b # i => L[b] = P[b]
    BY <1>2, <1>3, <1>7, <1>8 DEF Moved
  <2>2. PICK k \in 1 .. Len(P[a]) : P[a][k] = i /\ L[a] \o L[i] = Without(P[a], k) \o P[i]
    BY <1>3, <1>7, <1>8 DEF Moved
  <2>3. N[a] \o N[i] = Without(P[a], k) \o P[i]
    BY <1>13, <2>2, Zenon
  <2> QED
    BY <1>2, <1>3, <1>7, <1>12, <2>1, <2>2, <2>3 DEF Moved
<1>15. Lists(m, N)' /\ Reattaching(m, N)'
  BY <1>4, <1>11 DEF Shape
<1>16. Moving(N)'
  BY <1>1, <1>2, <1>4, <1>6, <1>7, <1>8, <1>10, <1>14, <1>15 DEF Moving
<1>17. N \in ListsOf(Len(file'))
  BY <1>1, <1>2, <1>4, <1>11
<1> QED
  BY <1>1, <1>4, <1>16, <1>17 DEF FileInv

(* When all children have moved, the tag can be deleted.                   *)
LEMMA DeleteEdits ==
    ASSUME IInv, FileInv, DeleteTag
    PROVE  FileInv'
<1>1. PICK t : t = file
  OBVIOUS
<1>2. PICK m \in Nat : m = Len(t)
  BY <1>1, TreeElements DEF IInv
<1>3. /\ pc = "reattach" /\ held.count = 0 /\ WellNested(t) /\ t \in Tree
      /\ file' = file /\ cmd' = cmd /\ heap' = heap /\ pc' = "changed"
  BY <1>1 DEF DeleteTag, IInv, FileInv
<1>4. PICK L \in ListsOf(m) : Moving(L)
  BY <1>1, <1>2, <1>3 DEF FileInv
<1>5. PICK i \in 1 .. m : i = held.object
  BY <1>1, <1>2, <1>4 DEF Moving
<1>6. /\ Lists(m, L) /\ Reattaching(m, L)
      /\ cmd.op = "r" /\ get_tag(t, cmd.tag) = i
      /\ Moved(t, i, L)
      /\ heap.tag = parse_array(t).tag
  BY <1>1, <1>2, <1>4, <1>5 DEF Moving
<1>7. L[i] = << >>
  <2>1. Len(L[i]) = 0 /\ i \in 0 .. m
    BY <1>3, <1>5, <1>6 DEF Reattaching
  <2> QED
    BY <2>1, ListElements
<1>8. heap \in Heaps(m) /\ Linked(heap, m, L)
  BY <1>6 DEF Lists
<1>9. PICK new : new = remove_tag(t, i)
  OBVIOUS
<1>10. new \in Tree /\ Len(new) = m - 1 /\ WellNested(new)
  BY <1>2, <1>3, <1>5, <1>9, RemoveTagResult, RemoveTagNested
<1>11. Len(new) <= m
  BY <1>10
<1>12. PICK c : c = OriginsOf(m, i, EndOfArray(t, i, t[i].depth + 1),
                              EndOfArray(t, i, t[i].depth))
  OBVIOUS
<1>13. Represents(m, L, new, c)
  BY <1>2, <1>3, <1>5, <1>6, <1>7, <1>9, <1>12, RemovedRepresents
<1>14. TagsAt(heap, new, c)
  BY <1>2, <1>3, <1>5, <1>6, <1>9, <1>12, RemovedTags
<1>15. cJSON_Print(heap) = new
  BY <1>8, <1>10, <1>11, <1>13, <1>14, RepresentedPrinted
<1>16. i # 0
  BY <1>5
<1>17. Edited'
  BY <1>1, <1>3, <1>6, <1>9, <1>15, <1>16 DEF Edited
<1> QED
  BY <1>1, <1>3, <1>17 DEF FileInv

(* The file becomes what the cells say.                                    *)
LEMMA WriteEdits ==
    ASSUME IInv, FileInv, write_config_file
    PROVE  FileInv'
<1>1. PICK t : t = file
  OBVIOUS
<1>2. /\ t \in Tree /\ WellNested(t) /\ Edited /\ cmd \in Command
      /\ file' = cJSON_Print(heap) /\ pc' = "done"
  BY <1>1 DEF write_config_file, IInv, FileInv
<1>3. \A tag : get_tag(t, tag) # 0 => get_tag(t, tag) \in 1 .. Len(t)
  <2> SUFFICES ASSUME NEW tag, get_tag(t, tag) # 0
               PROVE  get_tag(t, tag) \in 1 .. Len(t)
    OBVIOUS
  <2>1. get_tag(t, tag) \in 0 .. Len(t) /\ Len(t) \in Nat
    BY <1>2, GetTagFinds, TreeElements
  <2> QED
    BY <2>1
<1>4. WellNested(file')
  <2>1. CASE cmd.op = "a"
    <3>1. cmd.tag \in Name /\ cmd.assignable \in BOOLEAN
      BY <1>2, <2>1, CommandParts
    <3>2. file' = add_tag(t, cmd.tag, cmd.assignable)
      BY <1>1, <1>2, <2>1 DEF Edited
    <3> QED
      BY <1>2, <3>1, <3>2, AddTagNested
  <2>2. CASE cmd.op = "p"
    <3>1. cmd.tag \in Name /\ cmd.assignable \in BOOLEAN
      BY <1>2, <2>2, CommandParts
    <3>2. /\ file' = add_to_parent(t, get_tag(t, cmd.parent), cmd.tag, cmd.assignable)
          /\ get_tag(t, cmd.parent) \in 1 .. Len(t)
      BY <1>1, <1>2, <1>3, <2>2 DEF Edited
    <3> QED
      BY <1>2, <3>1, <3>2, AddToParentNested
  <2>3. CASE cmd.op = "r"
    <3>1. file' = remove_tag(t, get_tag(t, cmd.tag)) /\ get_tag(t, cmd.tag) \in 1 .. Len(t)
      BY <1>1, <1>2, <1>3, <2>3 DEF Edited
    <3> QED
      BY <1>2, <3>1, RemoveTagNested
  <2> QED
    BY <1>2, <2>1, <2>2, <2>3, CommandParts
<1> QED
  BY <1>2, <1>4 DEF FileInv

(* Every step is one of these, or changes nothing.                         *)
LEMMA NextKeepsFileInv ==
    ASSUME IInv, FileInv, [Next]_vars
    PROVE  FileInv'
<1>1. ASSUME NEW c \in Command, parse_config_file(c)
      PROVE  FileInv'
  BY <1>1 DEF FileInv, parse_config_file
<1>2. CASE AddTag
  BY <1>2, AddTagEdits
<1>3. CASE AddToParent
  BY <1>3, AddToParentEdits
<1>4. CASE DetachTag
  BY <1>4, DetachEdits
<1>5. CASE ReattachChild
  BY <1>5, ReattachEdits
<1>6. CASE DeleteTag
  BY <1>6, DeleteEdits
<1>7. CASE Refuse
  BY <1>7 DEF FileInv, Refuse
<1>8. CASE write_config_file
  BY <1>8, WriteEdits
<1>9. CASE free_tags_tree
  BY <1>9 DEF FileInv, free_tags_tree
<1>10. CASE UNCHANGED vars
  <2>1. /\ file' = file /\ pc' = pc /\ cmd' = cmd
        /\ heap' = heap /\ freed' = freed /\ held' = held
    BY <1>10 DEF vars
  <2>2. Edited' <=> Edited
    BY <2>1 DEF Edited
  <2>3. ASSUME NEW L
        PROVE  Moving(L)' <=> Moving(L)
    BY <2>1 DEF Moving, Lists, Reattaching
  <2> QED
    BY <2>1, <2>2, <2>3 DEF FileInv
<1> QED
  BY <1>1, <1>2, <1>3, <1>4, <1>5, <1>6, <1>7, <1>8, <1>9, <1>10 DEF Next

(* The second invariant holds in every state of every behaviour.           *)
LEMMA FileInvHolds == Spec => []FileInv
<1>1. Init => FileInv
  <2>1. WellNested(Skeleton)
    BY DEF WellNested, Skeleton
  <2> QED
    BY <2>1 DEF Init, FileInv
<1>2. IInv /\ FileInv /\ [Next]_vars => FileInv'
  BY NextKeepsFileInv
<1> QED
  BY <1>1, <1>2, InvariantHolds, PTL DEF Spec

(***************************************************************************)
(* The refinement.  The operators of TagTree that TagEdits uses are those  *)
(* used here: the instance has copies of them.                             *)
(***************************************************************************)

(* They return the same.                                                   *)
LEMMA SameOperators ==
    /\ \A t, tag : Edits!get_tag(t, tag) = get_tag(t, tag)
    /\ \A t, tag, a : Edits!add_tag(t, tag, a) = add_tag(t, tag, a)
    /\ \A t, i, tag, a : Edits!add_to_parent(t, i, tag, a) = add_to_parent(t, i, tag, a)
    /\ \A t, i : Edits!remove_tag(t, i) = remove_tag(t, i)
<1>1. \A t, tag : Edits!get_tag(t, tag) = get_tag(t, tag)
  BY DEF get_tag, Edits!get_tag, SelectInSeq, Edits!SelectInSeq, Min, Edits!Min
<1>2. \A t, tag, a : Edits!add_tag(t, tag, a) = add_tag(t, tag, a)
  BY DEF add_tag, Edits!add_tag, new_tag, Edits!new_tag
<1>3. \A t, i, tag, a : Edits!add_to_parent(t, i, tag, a) = add_to_parent(t, i, tag, a)
  BY DEF add_to_parent, Edits!add_to_parent, new_tag, Edits!new_tag,
         EndOfArray, Edits!EndOfArray, Min, Edits!Min
<1>4. \A t, i : Edits!remove_tag(t, i) = remove_tag(t, i)
  BY DEF remove_tag, Edits!remove_tag, Lift, Edits!Lift,
         EndOfArray, Edits!EndOfArray, Min, Edits!Min
<1> QED
  BY <1>1, <1>2, <1>3, <1>4

(* Writing the file is the edit that the command asked for ...             *)
LEMMA WriteIsEdit ==
    ASSUME IInv, FileInv, write_config_file
    PROVE  Edits!Next
<1>1. cmd \in Command /\ Edited /\ file' = cJSON_Print(heap)
  BY DEF write_config_file, IInv, FileInv
<1>2. CASE cmd.op = "a"
  <2>1. cmd.tag \in Name /\ cmd.assignable \in BOOLEAN
    BY <1>1, <1>2, CommandParts
  <2>2. get_tag(file, cmd.tag) = 0 /\ file' = add_tag(file, cmd.tag, cmd.assignable)
    BY <1>1, <1>2 DEF Edited
  <2>3. Edits!Add(cmd.tag, cmd.assignable)
    BY <2>2, SameOperators DEF Edits!Add, Edits!Has
  <2> QED
    BY <2>1, <2>3 DEF Edits!Next
<1>3. CASE cmd.op = "p"
  <2>1. cmd.parent \in Name /\ cmd.tag \in Name /\ cmd.assignable \in BOOLEAN
    BY <1>1, <1>3, CommandParts
  <2>2. /\ get_tag(file, cmd.parent) # 0 /\ get_tag(file, cmd.tag) = 0
        /\ file' = add_to_parent(file, get_tag(file, cmd.parent), cmd.tag, cmd.assignable)
    BY <1>1, <1>3 DEF Edited
  <2>3. Edits!AddChild(cmd.parent, cmd.tag, cmd.assignable)
    BY <2>2, SameOperators DEF Edits!AddChild, Edits!Has
  <2> QED
    BY <2>1, <2>3 DEF Edits!Next
<1>4. CASE cmd.op = "r"
  <2>1. cmd.tag \in Name
    BY <1>1, CommandParts
  <2>2. get_tag(file, cmd.tag) # 0 /\ file' = remove_tag(file, get_tag(file, cmd.tag))
    BY <1>1, <1>4 DEF Edited
  <2>3. Edits!Delete(cmd.tag)
    BY <2>2, SameOperators DEF Edits!Delete, Edits!Has
  <2> QED
    BY <2>1, <2>3 DEF Edits!Next
<1> QED
  BY <1>1, <1>2, <1>3, <1>4, CommandParts

(* ... and nothing else changes it.                                        *)
LEMMA ListsStepRefines ==
    ASSUME IInv, FileInv, [Next]_vars
    PROVE  [Edits!Next]_Edits!editVars
<1>1. CASE write_config_file
  BY <1>1, WriteIsEdit
<1>2. CASE ~ write_config_file
  <2>1. file' = file
    BY <1>2 DEF Next, vars, parse_config_file, AddTag, AddToParent, AppendTag, DetachTag,
                ReattachChild, DeleteTag, Refuse, free_tags_tree
  <2> QED
    BY <2>1 DEF Edits!editVars
<1> QED
  BY <1>1, <1>2

(* ListsImplementEdits, for every file and command line: what append,      *)
(* detach and delete do to the pointers, turn by turn, and what the walk   *)
(* along them then prints, is the edit of the tree that TagEdits makes in  *)
(* one step, and a process that refuses or only frees its cells leaves the *)
(* file as it is.                                                          *)
THEOREM ListsRefineEdits == Spec => ListsImplementEdits
<1>1. Init => Edits!Init
  BY DEF Init, Edits!Init, Skeleton, Edits!Skeleton
<1>2. IInv /\ FileInv /\ [Next]_vars => [Edits!Next]_Edits!editVars
  BY ListsStepRefines
<1> QED
  BY <1>1, <1>2, InvariantHolds, FileInvHolds, PTL DEF Spec, ListsImplementEdits, Edits!Spec

=============================================================================
