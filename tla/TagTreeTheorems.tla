-------------------------- MODULE TagTreeTheorems --------------------------
(***************************************************************************)
(* What the operators of TagTree return, for every tree.                   *)
(***************************************************************************)
EXTENDS TagTree, SequenceTheorems, WellFoundedInduction, TLAPS

(* The least element of a set of numbers.                                  *)
LEMMA MinIsLeast ==
    ASSUME NEW S, S \subseteq Nat, S # {}
    PROVE  Min(S) \in S /\ \A x \in S : Min(S) <= x
<1>1. PICK m \in S : \A y \in S : ~ (<<y, m>> \in OpToRel(<, Nat))
  BY WFMin, NatLessThanWellFounded
<1>2. \A y \in S : ~ (y < m)
  BY <1>1, Zenon DEF OpToRel
<1>3. \A y \in S : m <= y
  BY <1>2
<1> QED
  BY <1>3 DEF Min

(* The tags of a tree, and how deep they are.                              *)
LEMMA TreeElements ==
    ASSUME NEW t \in Tree
    PROVE  /\ Len(t) \in Nat
           /\ \A k \in 1 .. Len(t) :
                  t[k] \in Tag /\ t[k].depth \in Nat /\ t[k].name \in Name
<1>1. Len(t) \in Nat
  BY LenProperties DEF Tree
<1>2. \A k \in 1 .. Len(t) : t[k] \in Tag
  BY ElementOfSeq DEF Tree
<1> QED
  BY <1>1, <1>2 DEF Tag

(* get_tag finds a tag that has the name, if there is one.                 *)
LEMMA GetTagFinds ==
    ASSUME NEW t \in Tree, NEW tag
    PROVE  /\ get_tag(t, tag) \in 0 .. Len(t)
           /\ get_tag(t, tag) # 0 => t[get_tag(t, tag)].name = tag
           /\ get_tag(t, tag) = 0 => tag \notin Names(t)
<1> DEFINE I == {i \in 1 .. Len(t) : t[i].name = tag}
<1>1. get_tag(t, tag) = IF I # {} THEN Min(I) ELSE 0
  BY DEF get_tag, SelectInSeq
<1>2. I \subseteq 1 .. Len(t) /\ I \subseteq Nat
  OBVIOUS
<1>3. CASE I = {}
  BY <1>1, <1>3 DEF Names, Tree
<1>4. CASE I # {}
  <2>1. Min(I) \in I
    BY <1>2, <1>4, MinIsLeast
  <2> QED
    BY <1>1, <1>4, <2>1
<1> QED
  BY <1>3, <1>4

(* The tags from i + 1 to the end of the array of depth d are all at least *)
(* that deep, the one after it is not.                                     *)
LEMMA EndOfArrayBounds ==
    ASSUME NEW t \in Tree, NEW i \in 1 .. Len(t), NEW d \in Nat
    PROVE  /\ EndOfArray(t, i, d) \in i .. Len(t)
           /\ \A k \in i + 1 .. EndOfArray(t, i, d) : t[k].depth >= d
           /\ \/ EndOfArray(t, i, d) = Len(t)
              \/ t[EndOfArray(t, i, d) + 1].depth < d
<1> DEFINE J == {j \in i .. Len(t) : j = Len(t) \/ t[j + 1].depth < d}
           end == EndOfArray(t, i, d)
<1>1. Len(t) \in Nat /\ \A k \in 1 .. Len(t) : t[k].depth \in Nat
  BY TreeElements
<1>2. J \subseteq Nat /\ Len(t) \in J
  BY <1>1
<1>3. end \in J /\ \A j \in J : end <= j
  BY <1>2, MinIsLeast DEF EndOfArray
<1>4. end \in i .. Len(t) /\ (end = Len(t) \/ t[end + 1].depth < d)
  BY <1>3
<1>5. ASSUME NEW k \in i + 1 .. end
      PROVE  t[k].depth >= d
  <2>1. k \in 1 .. Len(t) /\ k - 1 \in i .. Len(t) /\ ~ (end <= k - 1) /\ k - 1 # Len(t)
    BY <1>1, <1>4
  <2>2. k - 1 \notin J
    BY <1>3, <2>1
  <2>3. ~ (t[k].depth < d)
    <3>1. (k - 1) + 1 = k
      BY <2>1
    <3> QED
      BY <2>1, <2>2, <3>1
  <2> QED
    BY <1>1, <2>1, <2>3
<1> QED
  BY <1>4, <1>5

(* The children of a tag end before, or where, its array ends.             *)
LEMMA ChildrenEndFirst ==
    ASSUME NEW t \in Tree, NEW i \in 1 .. Len(t), NEW d \in Nat
    PROVE  EndOfArray(t, i, d + 1) <= EndOfArray(t, i, d)
<1> DEFINE end == EndOfArray(t, i, d + 1)
           arrayEnd == EndOfArray(t, i, d)
<1>1. Len(t) \in Nat /\ \A k \in 1 .. Len(t) : t[k].depth \in Nat
  BY TreeElements
<1>2. end \in i .. Len(t) /\ \A k \in i + 1 .. end : t[k].depth >= d + 1
  <2>1. d + 1 \in Nat
    OBVIOUS
  <2> HIDE DEF end
  <2> QED
    BY <2>1, EndOfArrayBounds DEF end
<1>3. arrayEnd \in i .. Len(t) /\ (arrayEnd = Len(t) \/ t[arrayEnd + 1].depth < d)
  BY EndOfArrayBounds
<1> QED
  BY <1>1, <1>2, <1>3

(* Two trees put one after the other, and a part of a tree.                *)
LEMMA ConcatTrees ==
    ASSUME NEW s \in Tree, NEW t \in Tree
    PROVE  /\ s \o t \in Tree
           /\ Len(s \o t) = Len(s) + Len(t)
           /\ \A k \in 1 .. Len(s) + Len(t) :
                  (s \o t)[k] = IF k <= Len(s) THEN s[k] ELSE t[k - Len(s)]
BY ConcatProperties DEF Tree

LEMMA PartOfTree ==
    ASSUME NEW t \in Tree, NEW m \in 1 .. Len(t) + 1, NEW n \in m - 1 .. Len(t)
    PROVE  /\ SubSeq(t, m, n) \in Tree
           /\ Len(SubSeq(t, m, n)) = n - m + 1
           /\ \A k \in 1 .. n - m + 1 : SubSeq(t, m, n)[k] = t[m + k - 1]
<1>1. Len(t) \in Nat /\ \A k \in m .. n : t[k] \in Tag
  BY TreeElements
<1> QED
  BY <1>1, SubSeqProperties DEF Tree

(* The tree made of one tag.                                               *)
LEMMA NewTagTree ==
    ASSUME NEW tag \in Name, NEW a \in BOOLEAN, NEW d \in Nat
    PROVE  /\ <<new_tag(tag, a, d)>> \in Tree
           /\ Len(<<new_tag(tag, a, d)>>) = 1
           /\ <<new_tag(tag, a, d)>>[1].name = tag
           /\ <<new_tag(tag, a, d)>>[1].depth = d
BY DEF Tree, Tag, new_tag

(* A tag added at the end of the tree.                                     *)
LEMMA AddTagResult ==
    ASSUME NEW t \in Tree, NEW tag \in Name, NEW a \in BOOLEAN
    PROVE  /\ add_tag(t, tag, a) \in Tree
           /\ Len(add_tag(t, tag, a)) = Len(t) + 1
           /\ \A k \in 1 .. Len(t) : add_tag(t, tag, a)[k] = t[k]
           /\ add_tag(t, tag, a)[Len(t) + 1] = new_tag(tag, a, 0)
<1>1. new_tag(tag, a, 0) \in Tag
  BY DEF Tag, new_tag
<1> QED
  BY <1>1, AppendProperties DEF add_tag, Tree

(* A tag added to a parent: what is after the parent's descendants moves   *)
(* one position on.                                                        *)
LEMMA AddToParentResult ==
    ASSUME NEW t \in Tree, NEW i \in 1 .. Len(t), NEW tag \in Name, NEW a \in BOOLEAN
    PROVE  LET new == add_to_parent(t, i, tag, a)
               end == EndOfArray(t, i, t[i].depth + 1)
           IN  /\ new \in Tree
               /\ Len(new) = Len(t) + 1
               /\ end \in i .. Len(t)
               /\ \A k \in 1 .. Len(t) + 1 :
                      new[k] = IF k <= end THEN t[k]
                               ELSE IF k = end + 1 THEN new_tag(tag, a, t[i].depth + 1)
                               ELSE t[k - 1]
<1> DEFINE d == t[i].depth + 1
           end == EndOfArray(t, i, d)
           head == SubSeq(t, 1, end)
           one == <<new_tag(tag, a, d)>>
           tail == SubSeq(t, end + 1, Len(t))
           new == head \o one \o tail
<1>1. Len(t) \in Nat /\ d \in Nat
  BY TreeElements
<1>2. end \in i .. Len(t)
  <2> HIDE DEF d
  <2> QED
    BY <1>1, EndOfArrayBounds
<1> HIDE DEF d, end
<1>3. head \in Tree /\ Len(head) = end /\ \A k \in 1 .. end : head[k] = t[k]
  BY <1>1, <1>2, PartOfTree
<1>4. one \in Tree /\ Len(one) = 1 /\ one[1] = new_tag(tag, a, d)
  BY <1>1, NewTagTree
<1>5. /\ tail \in Tree
      /\ Len(tail) = Len(t) - end
      /\ \A k \in 1 .. Len(t) - end : tail[k] = t[end + k]
  BY <1>1, <1>2, PartOfTree
<1> HIDE DEF head, one, tail
<1>6. /\ head \o one \in Tree
      /\ Len(head \o one) = end + 1
      /\ \A k \in 1 .. end + 1 : (head \o one)[k] = IF k <= end THEN t[k] ELSE new_tag(tag, a, d)
  <2>1. /\ head \o one \in Tree
        /\ Len(head \o one) = Len(head) + Len(one)
        /\ \A k \in 1 .. Len(head) + Len(one) :
               (head \o one)[k] = IF k <= Len(head) THEN head[k] ELSE one[k - Len(head)]
    BY <1>3, <1>4, ConcatTrees
  <2>2. \A k \in 1 .. end + 1 : k <= end \/ k - end = 1
    BY <1>1, <1>2
  <2> QED
    BY <1>1, <1>2, <1>3, <1>4, <2>1, <2>2
<1>7. /\ new \in Tree
      /\ Len(new) = Len(t) + 1
      /\ \A k \in 1 .. Len(t) + 1 :
             new[k] = IF k <= end + 1 THEN (head \o one)[k] ELSE tail[k - (end + 1)]
  <2>1. (end + 1) + (Len(t) - end) = Len(t) + 1
    BY <1>1, <1>2
  <2>2. /\ head \o one \o tail \in Tree
        /\ Len(head \o one \o tail) = Len(head \o one) + Len(tail)
        /\ \A k \in 1 .. Len(head \o one) + Len(tail) :
               (head \o one \o tail)[k] =
                   IF k <= Len(head \o one)
                   THEN (head \o one)[k]
                   ELSE tail[k - Len(head \o one)]
    BY <1>5, <1>6, ConcatTrees
  <2> QED
    BY <1>5, <1>6, <2>1, <2>2
<1>8. new = add_to_parent(t, i, tag, a)
  BY DEF add_to_parent, new, head, one, tail, end, d
<1> HIDE DEF new
<1>9. \A k \in 1 .. Len(t) + 1 :
          new[k] = IF k <= end THEN t[k]
                   ELSE IF k = end + 1 THEN new_tag(tag, a, d)
                   ELSE t[k - 1]
  <2> SUFFICES ASSUME NEW k \in 1 .. Len(t) + 1
               PROVE  new[k] = IF k <= end THEN t[k]
                               ELSE IF k = end + 1 THEN new_tag(tag, a, d)
                               ELSE t[k - 1]
    OBVIOUS
  <2>1. CASE k <= end + 1
    <3>1. k \in 1 .. end + 1 /\ (k <= end \/ k = end + 1)
      BY <1>1, <1>2, <2>1
    <3>2. new[k] = (head \o one)[k]
      BY <1>7, <2>1
    <3>3. (head \o one)[k] = IF k <= end THEN t[k] ELSE new_tag(tag, a, d)
      BY <1>6, <3>1
    <3> QED
      BY <3>1, <3>2, <3>3
  <2>2. CASE k > end + 1
    <3>1. /\ k - (end + 1) \in 1 .. Len(t) - end
          /\ end + (k - (end + 1)) = k - 1
          /\ ~ (k <= end + 1) /\ ~ (k <= end) /\ k # end + 1
      BY <1>1, <1>2, <2>2
    <3>2. new[k] = tail[k - (end + 1)]
      BY <1>7, <3>1
    <3>3. tail[k - (end + 1)] = t[k - 1]
      BY <1>5, <3>1
    <3> QED
      BY <3>1, <3>2, <3>3
  <2> QED
    BY <1>1, <1>2, <2>1, <2>2
<1> QED
  BY <1>2, <1>7, <1>8, <1>9 DEF end, d

(* One level up, if no tag was at the top level.                           *)
LEMMA LiftResult ==
    ASSUME NEW s \in Tree, \A k \in 1 .. Len(s) : s[k].depth >= 1
    PROVE  /\ Lift(s) \in Tree
           /\ Len(Lift(s)) = Len(s)
           /\ \A k \in 1 .. Len(s) : Lift(s)[k] = [s[k] EXCEPT !.depth = @ - 1]
<1>1. /\ Len(s) \in Nat
      /\ DOMAIN s = 1 .. Len(s)
      /\ \A k \in 1 .. Len(s) : s[k] \in Tag
  BY TreeElements, LenProperties DEF Tree
<1>2. \A k \in 1 .. Len(s) : [s[k] EXCEPT !.depth = @ - 1] \in Tag
  BY <1>1 DEF Tag
<1>3. Lift(s) = [k \in 1 .. Len(s) |-> [s[k] EXCEPT !.depth = @ - 1]]
  BY <1>1 DEF Lift
<1>4. Lift(s) \in Seq(Tag) /\ Len(Lift(s)) = Len(s)
  BY <1>1, <1>2, <1>3
<1> QED
  BY <1>3, <1>4 DEF Tree

(* Where the tag at position k of remove_tag(t, i) was in t: children are  *)
(* the end - i tags after the removed one, uncles those from end + 1 to    *)
(* arrayEnd.                                                               *)
Origin(i, end, arrayEnd, k) ==
    IF k <= i - 1 THEN k
    ELSE IF k <= arrayEnd - (end - i) - 1 THEN k + (end - i) + 1
    ELSE IF k <= arrayEnd - 1 THEN k - (arrayEnd - end) + 1
    ELSE k + 1

(* Every position of the new tree comes from one of the old tree ...       *)
LEMMA OriginInTree ==
    ASSUME NEW n \in Nat, NEW i \in 1 .. n, NEW end \in i .. n, NEW arrayEnd \in end .. n,
           NEW k \in 1 .. n - 1
    PROVE  Origin(i, end, arrayEnd, k) \in 1 .. n
BY DEF Origin

(* ... and no two from the same.                                           *)
LEMMA OriginInjective ==
    ASSUME NEW n \in Nat, NEW i \in 1 .. n, NEW end \in i .. n, NEW arrayEnd \in end .. n,
           NEW j \in 1 .. n - 1, NEW k \in 1 .. n - 1,
           Origin(i, end, arrayEnd, j) = Origin(i, end, arrayEnd, k)
    PROVE  j = k
BY DEF Origin

(* Neighbours of the new tree were neighbours of the old one, both or none *)
(* of them a descendant of the removed tag, unless the first is before the *)
(* removed tag or ends its array or its children, and the second follows   *)
(* its children or its array, or is its first child.                       *)
LEMMA OriginNeighbours ==
    ASSUME NEW n \in Nat, NEW i \in 1 .. n, NEW end \in i .. n, NEW arrayEnd \in end .. n,
           NEW k \in 1 .. n - 1, k + 1 \in 1 .. n - 1
    PROVE  LET x == Origin(i, end, arrayEnd, k)
               y == Origin(i, end, arrayEnd, k + 1)
           IN  \/ y = x + 1 /\ (x \in i + 1 .. end <=> y \in i + 1 .. end)
               \/ /\ x = i - 1 \/ x \in end + 1 .. arrayEnd \/ x \in i + 1 .. end
                  /\ y = end + 1 \/ y = arrayEnd + 1 \/ (y = i + 1 /\ i + 1 <= end)
BY DEF Origin

(* A removed tag: every other tag is there once, at its level or, for the  *)
(* descendants of the removed one, one level up.                           *)
LEMMA RemoveTagResult ==
    ASSUME NEW t \in Tree, NEW i \in 1 .. Len(t)
    PROVE  LET new      == remove_tag(t, i)
               end      == EndOfArray(t, i, t[i].depth + 1)
               arrayEnd == EndOfArray(t, i, t[i].depth)
           IN  /\ new \in Tree
               /\ Len(new) = Len(t) - 1
               /\ end \in i .. Len(t) /\ arrayEnd \in end .. Len(t)
               /\ \A k \in 1 .. Len(t) - 1 :
                      LET o == Origin(i, end, arrayEnd, k)
                      IN  new[k] = IF o \in i + 1 .. end
                                   THEN [t[o] EXCEPT !.depth = @ - 1]
                                   ELSE t[o]
<1> DEFINE d == t[i].depth
           end == EndOfArray(t, i, d + 1)
           arrayEnd == EndOfArray(t, i, d)
           children == SubSeq(t, i + 1, end)
           head == SubSeq(t, 1, i - 1)
           uncles == SubSeq(t, end + 1, arrayEnd)
           lifted == Lift(children)
           tail == SubSeq(t, arrayEnd + 1, Len(t))
           new == head \o uncles \o lifted \o tail
           o(k) == Origin(i, end, arrayEnd, k)
           moved(k) == IF o(k) \in i + 1 .. end THEN [t[o(k)] EXCEPT !.depth = @ - 1]
                                                ELSE t[o(k)]
<1>1. Len(t) \in Nat /\ d \in Nat /\ d + 1 \in Nat /\ d + 1 >= 1
  BY TreeElements
<1> HIDE DEF d
<1>2. /\ end \in i .. Len(t)
      /\ \A k \in i + 1 .. end : t[k].depth >= d + 1
      /\ arrayEnd \in i .. Len(t)
      /\ end <= arrayEnd
  BY <1>1, EndOfArrayBounds, ChildrenEndFirst
<1> HIDE DEF end, arrayEnd
<1>3. arrayEnd \in end .. Len(t)
  BY <1>1, <1>2
<1>4. head \in Tree /\ Len(head) = i - 1 /\ \A k \in 1 .. i - 1 : head[k] = t[k]
  BY <1>1, PartOfTree
<1>5. /\ uncles \in Tree
      /\ Len(uncles) = arrayEnd - end
      /\ \A k \in 1 .. arrayEnd - end : uncles[k] = t[end + k]
  BY <1>1, <1>2, <1>3, PartOfTree
<1>6. /\ children \in Tree
      /\ Len(children) = end - i
      /\ \A k \in 1 .. end - i : children[k] = t[i + k]
  BY <1>1, <1>2, PartOfTree
<1> HIDE DEF children
<1>7. \A k \in 1 .. Len(children) : children[k].depth >= 1
  <2> SUFFICES ASSUME NEW k \in 1 .. Len(children)
               PROVE  children[k].depth >= 1
    OBVIOUS
  <2>1. i + k \in i + 1 .. end /\ i + k \in 1 .. Len(t) /\ k \in 1 .. end - i
    BY <1>1, <1>2, <1>6
  <2>2. t[i + k].depth >= d + 1 /\ t[i + k].depth \in Nat
    BY <1>2, <2>1, TreeElements
  <2>3. children[k] = t[i + k]
    BY <1>6, <2>1
  <2> QED
    BY <1>1, <2>2, <2>3
<1>8. /\ lifted \in Tree
      /\ Len(lifted) = end - i
      /\ \A k \in 1 .. end - i : lifted[k] = [t[i + k] EXCEPT !.depth = @ - 1]
  BY <1>6, <1>7, LiftResult
<1>9. /\ tail \in Tree
      /\ Len(tail) = Len(t) - arrayEnd
      /\ \A k \in 1 .. Len(t) - arrayEnd : tail[k] = t[arrayEnd + k]
  BY <1>1, <1>2, <1>3, PartOfTree
<1> HIDE DEF head, uncles, lifted, tail
<1>10. /\ head \o uncles \in Tree
       /\ Len(head \o uncles) = (i - 1) + (arrayEnd - end)
       /\ \A k \in 1 .. (i - 1) + (arrayEnd - end) :
              (head \o uncles)[k] = IF k <= i - 1 THEN head[k] ELSE uncles[k - (i - 1)]
  <2>1. /\ head \o uncles \in Tree
        /\ Len(head \o uncles) = Len(head) + Len(uncles)
        /\ \A k \in 1 .. Len(head) + Len(uncles) :
               (head \o uncles)[k] = IF k <= Len(head) THEN (head)[k] ELSE uncles[k - Len(head)]
    BY <1>4, <1>5, ConcatTrees
  <2> QED
    BY <1>4, <1>5, <2>1
<1>11. /\ head \o uncles \o lifted \in Tree
       /\ Len(head \o uncles \o lifted) = arrayEnd - 1
       /\ \A k \in 1 .. arrayEnd - 1 :
              (head \o uncles \o lifted)[k] =
                  IF k <= (i - 1) + (arrayEnd - end) THEN (head \o uncles)[k]
                  ELSE lifted[k - ((i - 1) + (arrayEnd - end))]
  <2>1. (i - 1) + (arrayEnd - end) + (end - i) = arrayEnd - 1
    BY <1>1, <1>2, <1>3
  <2>2. /\ head \o uncles \o lifted \in Tree
        /\ Len(head \o uncles \o lifted) = Len(head \o uncles) + Len(lifted)
        /\ \A k \in 1 .. Len(head \o uncles) + Len(lifted) :
               (head \o uncles \o lifted)[k] =
                   IF k <= Len(head \o uncles)
                   THEN (head \o uncles)[k]
                   ELSE lifted[k - Len(head \o uncles)]
    BY <1>8, <1>10, ConcatTrees
  <2> QED
    BY <1>8, <1>10, <2>1, <2>2
<1>12. /\ new \in Tree
       /\ Len(new) = Len(t) - 1
       /\ \A k \in 1 .. Len(t) - 1 :
              new[k] = IF k <= arrayEnd - 1 THEN (head \o uncles \o lifted)[k]
                       ELSE tail[k - (arrayEnd - 1)]
  <2>1. (arrayEnd - 1) + (Len(t) - arrayEnd) = Len(t) - 1
    BY <1>1, <1>2, <1>3
  <2>2. /\ head \o uncles \o lifted \o tail \in Tree
        /\ Len(head \o uncles \o lifted \o tail) = Len(head \o uncles \o lifted) + Len(tail)
        /\ \A k \in 1 .. Len(head \o uncles \o lifted) + Len(tail) :
               (head \o uncles \o lifted \o tail)[k] =
                   IF k <= Len(head \o uncles \o lifted)
                   THEN (head \o uncles \o lifted)[k]
                   ELSE tail[k - Len(head \o uncles \o lifted)]
    BY <1>9, <1>11, ConcatTrees
  <2> QED
    BY <1>9, <1>11, <2>1, <2>2
<1>13. new = remove_tag(t, i)
  BY DEF remove_tag, new, head, uncles, lifted, tail, children, end, arrayEnd, d
<1> HIDE DEF new
<1>14. ASSUME NEW k \in 1 .. Len(t) - 1
       PROVE  new[k] = moved(k)
  <2>1. CASE k <= i - 1
    <3>1. /\ k <= (i - 1) + (arrayEnd - end) /\ k <= arrayEnd - 1
          /\ k \in 1 .. (i - 1) + (arrayEnd - end) /\ k \in 1 .. arrayEnd - 1
          /\ k \in 1 .. i - 1
          /\ o(k) = k /\ o(k) \notin i + 1 .. end
      BY <1>1, <1>2, <1>3, <2>1 DEF Origin
    <3>2. new[k] = t[k]
      BY <1>4, <1>10, <1>11, <1>12, <3>1, <2>1
    <3> QED
      BY <3>1, <3>2
  <2>2. CASE k > i - 1 /\ k <= (i - 1) + (arrayEnd - end)
    <3>1. /\ k <= arrayEnd - 1 /\ ~ (k <= i - 1)
          /\ k \in 1 .. (i - 1) + (arrayEnd - end) /\ k \in 1 .. arrayEnd - 1
          /\ k - (i - 1) \in 1 .. arrayEnd - end
          /\ o(k) = end + (k - (i - 1)) /\ o(k) \notin i + 1 .. end
      BY <1>1, <1>2, <1>3, <2>2 DEF Origin
    <3>2. new[k] = uncles[k - (i - 1)]
      BY <1>10, <1>11, <1>12, <3>1, <2>2
    <3>3. uncles[k - (i - 1)] = t[end + (k - (i - 1))]
      BY <1>5, <3>1
    <3> QED
      BY <3>1, <3>2, <3>3
  <2>3. CASE k > (i - 1) + (arrayEnd - end) /\ k <= arrayEnd - 1
    <3> DEFINE j == k - ((i - 1) + (arrayEnd - end))
    <3>1. /\ ~ (k <= (i - 1) + (arrayEnd - end)) /\ k \in 1 .. arrayEnd - 1
          /\ j \in 1 .. end - i
          /\ o(k) = i + j /\ o(k) \in i + 1 .. end
      BY <1>1, <1>2, <1>3, <2>3 DEF Origin
    <3>2. new[k] = lifted[j]
      BY <1>11, <1>12, <3>1, <2>3
    <3>3. lifted[j] = [t[i + j] EXCEPT !.depth = @ - 1]
      BY <1>8, <3>1
    <3> HIDE DEF j
    <3> QED
      BY <3>1, <3>2, <3>3
  <2>4. CASE k > arrayEnd - 1
    <3> DEFINE j == k - (arrayEnd - 1)
    <3>1. /\ ~ (k <= arrayEnd - 1)
          /\ j \in 1 .. Len(t) - arrayEnd
          /\ o(k) = arrayEnd + j /\ o(k) \notin i + 1 .. end
      BY <1>1, <1>2, <1>3, <2>4 DEF Origin
    <3>2. new[k] = tail[j]
      BY <1>12, <3>1
    <3>3. tail[j] = t[arrayEnd + j]
      BY <1>9, <3>1
    <3> HIDE DEF j
    <3> QED
      BY <3>1, <3>2, <3>3
  <2> QED
    BY <1>1, <1>2, <1>3, <2>1, <2>2, <2>3, <2>4
<1> QED
  BY <1>2, <1>3, <1>12, <1>13, <1>14 DEF end, arrayEnd, d

-----------------------------------------------------------------------------
(***************************************************************************)
(* No command makes two tags of one name.                                  *)
(***************************************************************************)

(* A tag that get_tag does not find is added at the end.                   *)
LEMMA AddTagUnique ==
    ASSUME NEW t \in Tree, NEW tag \in Name, NEW a \in BOOLEAN,
           Unique(t), get_tag(t, tag) = 0
    PROVE  Unique(add_tag(t, tag, a))
<1> DEFINE new == add_tag(t, tag, a)
<1>1. /\ new \in Tree
      /\ Len(new) = Len(t) + 1
      /\ \A k \in 1 .. Len(t) : new[k] = t[k]
      /\ new[Len(t) + 1].name = tag
  <2>1. new_tag(tag, a, 0).name = tag
    BY DEF new_tag
  <2> QED
    BY <2>1, AddTagResult
<1>2. Len(t) \in Nat /\ DOMAIN t = 1 .. Len(t) /\ DOMAIN new = 1 .. Len(t) + 1
  BY <1>1, LenProperties DEF Tree
<1>3. \A k \in 1 .. Len(t) : t[k].name # tag
  BY <1>2, GetTagFinds DEF Names
<1> HIDE DEF new
<1>4. ASSUME NEW j \in DOMAIN new, NEW k \in DOMAIN new, new[j].name = new[k].name
      PROVE  j = k
  <2>1. CASE j \in 1 .. Len(t) /\ k \in 1 .. Len(t)
    BY <1>1, <1>2, <1>4, <2>1 DEF Unique
  <2>2. CASE j \in 1 .. Len(t) /\ k = Len(t) + 1
    BY <1>1, <1>3, <1>4, <2>2
  <2>3. CASE j = Len(t) + 1 /\ k \in 1 .. Len(t)
    BY <1>1, <1>3, <1>4, <2>3
  <2> QED
    BY <1>2, <2>1, <2>2, <2>3
<1> QED
  BY <1>4 DEF Unique, new

(* A tag that get_tag does not find is added to a parent.                  *)
LEMMA AddToParentUnique ==
    ASSUME NEW t \in Tree, NEW i \in 1 .. Len(t), NEW tag \in Name, NEW a \in BOOLEAN,
           Unique(t), get_tag(t, tag) = 0
    PROVE  Unique(add_to_parent(t, i, tag, a))
<1> DEFINE new == add_to_parent(t, i, tag, a)
           end == EndOfArray(t, i, t[i].depth + 1)
           o(k) == IF k <= end THEN k ELSE k - 1
<1>1. /\ new \in Tree
      /\ Len(new) = Len(t) + 1
      /\ end \in i .. Len(t)
      /\ \A k \in 1 .. Len(t) + 1 :
             new[k] = IF k <= end THEN t[k]
                      ELSE IF k = end + 1 THEN new_tag(tag, a, t[i].depth + 1)
                      ELSE t[k - 1]
  BY AddToParentResult
<1>2. Len(t) \in Nat /\ DOMAIN t = 1 .. Len(t) /\ DOMAIN new = 1 .. Len(t) + 1
  BY <1>1, LenProperties DEF Tree
<1>3. \A k \in 1 .. Len(t) : t[k].name # tag
  BY <1>2, GetTagFinds DEF Names
<1> HIDE DEF new, end
<1>4. \A k \in 1 .. Len(t) + 1 :
          IF k = end + 1 THEN new[k].name = tag
          ELSE o(k) \in 1 .. Len(t) /\ new[k] = t[o(k)]
  <2> SUFFICES ASSUME NEW k \in 1 .. Len(t) + 1
               PROVE  IF k = end + 1 THEN new[k].name = tag
                      ELSE o(k) \in 1 .. Len(t) /\ new[k] = t[o(k)]
    OBVIOUS
  <2>1. CASE k <= end
    BY <1>1, <1>2, <2>1
  <2>2. CASE k = end + 1
    BY <1>1, <1>2, <2>2 DEF new_tag
  <2>3. CASE k > end + 1
    BY <1>1, <1>2, <2>3
  <2> QED
    BY <1>1, <1>2, <2>1, <2>2, <2>3
<1>5. ASSUME NEW j \in DOMAIN new, NEW k \in DOMAIN new, new[j].name = new[k].name
      PROVE  j = k
  <2>1. CASE j # end + 1 /\ k # end + 1
    <3>1. o(j) = o(k)
      <4> HIDE DEF o
      <4> QED
        BY <1>2, <1>4, <1>5, <2>1 DEF Unique
    <3> QED
      BY <1>1, <1>2, <2>1, <3>1
  <2>2. CASE j = end + 1 /\ k # end + 1
    <3> HIDE DEF o
    <3> QED
      BY <1>2, <1>3, <1>4, <1>5, <2>2
  <2>3. CASE j # end + 1 /\ k = end + 1
    <3> HIDE DEF o
    <3> QED
      BY <1>2, <1>3, <1>4, <1>5, <2>3
  <2> QED
    BY <2>1, <2>2, <2>3
<1> QED
  BY <1>5 DEF Unique, new

(* A tag is removed: the others stay, once each.                           *)
LEMMA RemoveTagUnique ==
    ASSUME NEW t \in Tree, NEW i \in 1 .. Len(t), Unique(t)
    PROVE  Unique(remove_tag(t, i))
<1> DEFINE new      == remove_tag(t, i)
           end      == EndOfArray(t, i, t[i].depth + 1)
           arrayEnd == EndOfArray(t, i, t[i].depth)
           o(k)     == Origin(i, end, arrayEnd, k)
<1>1. /\ new \in Tree
      /\ Len(new) = Len(t) - 1
      /\ end \in i .. Len(t) /\ arrayEnd \in end .. Len(t)
      /\ \A k \in 1 .. Len(t) - 1 :
             new[k] = IF o(k) \in i + 1 .. end THEN [t[o(k)] EXCEPT !.depth = @ - 1]
                      ELSE t[o(k)]
  BY RemoveTagResult
<1>2. Len(t) \in Nat /\ DOMAIN t = 1 .. Len(t) /\ DOMAIN new = 1 .. Len(t) - 1
  BY <1>1, LenProperties DEF Tree
<1> HIDE DEF new, end, arrayEnd
<1>3. \A k \in 1 .. Len(t) - 1 : o(k) \in 1 .. Len(t)
  BY <1>1, <1>2, OriginInTree
<1>4. \A j, k \in 1 .. Len(t) - 1 : o(j) = o(k) => j = k
  BY <1>1, <1>2, OriginInjective
<1>5. ASSUME NEW k \in 1 .. Len(t) - 1
      PROVE  new[k].name = t[o(k)].name
  <2>1. o(k) \in 1 .. Len(t) /\ t[o(k)] \in Tag
    BY <1>3, TreeElements
  <2> HIDE DEF o
  <2> QED
    BY <1>1, <2>1 DEF Tag
<1>6. ASSUME NEW j \in DOMAIN new, NEW k \in DOMAIN new, new[j].name = new[k].name
      PROVE  j = k
  <2> HIDE DEF o
  <2>1. o(j) = o(k)
    BY <1>2, <1>3, <1>5, <1>6 DEF Unique
  <2> QED
    BY <1>2, <1>4, <2>1
<1> QED
  BY <1>6 DEF Unique, new

-----------------------------------------------------------------------------
(***************************************************************************)
(* Every command keeps a forest a forest.                                  *)
(***************************************************************************)

(* A tag of the top level fits behind any tag.                             *)
LEMMA AddTagNested ==
    ASSUME NEW t \in Tree, NEW tag \in Name, NEW a \in BOOLEAN, WellNested(t)
    PROVE  WellNested(add_tag(t, tag, a))
<1> DEFINE new == add_tag(t, tag, a)
<1>1. /\ new \in Tree
      /\ Len(new) = Len(t) + 1
      /\ \A k \in 1 .. Len(t) : new[k] = t[k]
      /\ new[Len(t) + 1].depth = 0
  <2>1. new_tag(tag, a, 0).depth = 0
    BY DEF new_tag
  <2> QED
    BY <2>1, AddTagResult
<1>2. Len(t) \in Nat /\ \A k \in 1 .. Len(t) : t[k].depth \in Nat
  BY TreeElements
<1> HIDE DEF new
<1>3. new[1].depth = 0
  <2>1. CASE Len(t) = 0
    BY <1>1, <2>1
  <2>2. CASE Len(t) # 0
    <3>1. t # << >> /\ 1 \in 1 .. Len(t)
      BY <1>2, <2>2
    <3> QED
      BY <1>1, <3>1 DEF WellNested
  <2> QED
    BY <2>1, <2>2
<1>4. ASSUME NEW k \in 1 .. Len(new) - 1
      PROVE  new[k + 1].depth <= new[k].depth + 1
  <2>1. CASE k + 1 <= Len(t)
    <3>1. k \in 1 .. Len(t) - 1 /\ k \in 1 .. Len(t) /\ k + 1 \in 1 .. Len(t)
      BY <1>2, <2>1
    <3> QED
      BY <1>1, <3>1 DEF WellNested
  <2>2. CASE k + 1 = Len(t) + 1
    <3>1. k \in 1 .. Len(t)
      BY <1>1, <1>2, <2>2
    <3> QED
      BY <1>1, <1>2, <2>2, <3>1
  <2> QED
    BY <1>1, <1>2, <2>1, <2>2
<1> QED
  BY <1>3, <1>4 DEF WellNested, new

(* A new child goes behind the last descendant of its parent.              *)
LEMMA AddToParentNested ==
    ASSUME NEW t \in Tree, NEW i \in 1 .. Len(t), NEW tag \in Name, NEW a \in BOOLEAN,
           WellNested(t)
    PROVE  WellNested(add_to_parent(t, i, tag, a))
<1> DEFINE new == add_to_parent(t, i, tag, a)
           d   == t[i].depth + 1
           end == EndOfArray(t, i, d)
<1>1. /\ new \in Tree
      /\ Len(new) = Len(t) + 1
      /\ \A k \in 1 .. Len(t) + 1 :
             new[k] = IF k <= end THEN t[k]
                      ELSE IF k = end + 1 THEN new_tag(tag, a, d)
                      ELSE t[k - 1]
  BY AddToParentResult
<1>2. Len(t) \in Nat /\ \A k \in 1 .. Len(t) : t[k].depth \in Nat
  BY TreeElements
<1>3. d \in Nat /\ d = t[i].depth + 1
  BY <1>2
<1> HIDE DEF new, d
<1>4. /\ end \in i .. Len(t)
      /\ \A k \in i + 1 .. end : t[k].depth >= d
      /\ end = Len(t) \/ t[end + 1].depth < d
  BY <1>3, EndOfArrayBounds
<1> HIDE DEF end
<1>5. \A k \in 1 .. Len(t) - 1 : t[k + 1].depth <= t[k].depth + 1
  BY DEF WellNested
<1>6. t[1].depth = 0
  BY <1>2 DEF WellNested
<1>7. new_tag(tag, a, d).depth = d
  BY DEF new_tag
<1>8. new[1].depth = 0
  BY <1>1, <1>2, <1>4, <1>6
<1>9. ASSUME NEW k \in 1 .. Len(t)
      PROVE  new[k + 1].depth <= new[k].depth + 1
  <2>1. k \in 1 .. Len(t) + 1 /\ k + 1 \in 1 .. Len(t) + 1
    BY <1>2
  <2>2. CASE k + 1 <= end
    BY <1>1, <1>2, <1>4, <1>5, <2>1, <2>2
  <2>3. CASE k + 1 = end + 1
    <3>1. k = end /\ new[k] = t[end] /\ new[k + 1] = new_tag(tag, a, d)
      BY <1>1, <1>2, <1>4, <2>1, <2>3
    <3>2. t[end].depth \in Nat /\ t[end].depth >= d - 1
      BY <1>2, <1>3, <1>4, SMTT(20)
    <3> QED
      BY <1>3, <1>7, <3>1, <3>2
  <2>4. CASE k = end + 1
    <3>1. new[k] = new_tag(tag, a, d) /\ new[k + 1] = t[end + 1] /\ end + 1 \in 1 .. Len(t)
      BY <1>1, <1>2, <1>4, <2>1, <2>4
    <3>2. t[end + 1].depth \in Nat /\ t[end + 1].depth < d
      BY <1>2, <1>4, <3>1
    <3> QED
      BY <1>3, <1>7, <3>1, <3>2
  <2>5. CASE k > end + 1
    <3>1. /\ new[k] = t[k - 1] /\ new[k + 1] = t[k]
          /\ k - 1 \in 1 .. Len(t) - 1 /\ (k - 1) + 1 = k
      BY <1>1, <1>2, <1>4, <2>1, <2>5
    <3> QED
      BY <1>5, <3>1
  <2> QED
    BY <1>2, <1>4, <2>2, <2>3, <2>4, <2>5
<1>10. Len(new) - 1 = Len(t)
  BY <1>1, <1>2
<1> QED
  BY <1>8, <1>9, <1>10 DEF WellNested, new

(* Where two neighbours of the new tree were not neighbours before: at the *)
(* gap the removed tag left, before and after its children's new place.    *)
LEMMA RemoveTagNested ==
    ASSUME NEW t \in Tree, NEW i \in 1 .. Len(t), WellNested(t)
    PROVE  WellNested(remove_tag(t, i))
<1> DEFINE new      == remove_tag(t, i)
           d        == t[i].depth
           end      == EndOfArray(t, i, d + 1)
           arrayEnd == EndOfArray(t, i, d)
           o(k)     == Origin(i, end, arrayEnd, k)
<1>1. /\ new \in Tree
      /\ Len(new) = Len(t) - 1
      /\ end \in i .. Len(t) /\ arrayEnd \in end .. Len(t)
      /\ \A k \in 1 .. Len(t) - 1 :
             new[k] = IF o(k) \in i + 1 .. end THEN [t[o(k)] EXCEPT !.depth = @ - 1]
                      ELSE t[o(k)]
  BY RemoveTagResult
<1>2. /\ Len(t) \in Nat
      /\ \A k \in 1 .. Len(t) : t[k] \in Tag /\ t[k].depth \in Nat
      /\ d \in Nat /\ d + 1 \in Nat /\ d = t[i].depth
  BY TreeElements
<1> HIDE DEF new, d
<1>3. /\ \A k \in i + 1 .. end : t[k].depth >= d + 1
      /\ end = Len(t) \/ t[end + 1].depth < d + 1
      /\ \A k \in i + 1 .. arrayEnd : t[k].depth >= d
      /\ arrayEnd = Len(t) \/ t[arrayEnd + 1].depth < d
  BY <1>2, EndOfArrayBounds
<1> HIDE DEF end, arrayEnd
<1>4. \A k \in 1 .. Len(t) - 1 : t[k + 1].depth <= t[k].depth + 1
  BY DEF WellNested
<1>5. t[1].depth = 0
  BY <1>2 DEF WellNested
<1> DEFINE level(k) == IF k \in i + 1 .. end THEN t[k].depth - 1 ELSE t[k].depth
<1>6. ASSUME NEW k \in 1 .. Len(t) - 1
      PROVE  o(k) \in 1 .. Len(t) /\ new[k].depth = level(o(k))
  <2>1. o(k) \in 1 .. Len(t)
    BY <1>1, <1>2, OriginInTree
  <2> HIDE DEF o
  <2> QED
    BY <1>1, <1>2, <2>1 DEF Tag
<1>7. ASSUME NEW k \in 1 .. Len(t) - 1, k + 1 \in 1 .. Len(t) - 1
      PROVE  new[k + 1].depth <= new[k].depth + 1
  <2> DEFINE x == o(k)
             y == o(k + 1)
  <2>1. /\ new[k].depth = level(x) /\ new[k + 1].depth = level(y)
        /\ x \in 1 .. Len(t) /\ y \in 1 .. Len(t)
    <3> HIDE DEF o, level
    <3> QED
      BY <1>6, <1>7
  <2>2. /\ i \in 1 .. Len(t) /\ k + 1 <= Len(t) - 1
        /\ end \in 1 .. Len(t) /\ i <= end /\ arrayEnd \in 1 .. Len(t) /\ end <= arrayEnd
    BY <1>1, <1>2, <1>7
  <2>3. \/ y = x + 1 /\ (x \in i + 1 .. end <=> y \in i + 1 .. end)
        \/ /\ x = i - 1 \/ x \in end + 1 .. arrayEnd \/ x \in i + 1 .. end
           /\ y = end + 1 \/ y = arrayEnd + 1 \/ (y = i + 1 /\ i + 1 <= end)
    <3> HIDE DEF level
    <3>1. /\ Len(t) \in Nat /\ end \in i .. Len(t) /\ arrayEnd \in end .. Len(t)
          /\ k + 1 \in 1 .. Len(t) - 1
      BY <1>1, <1>2, <1>7
    <3> QED
      BY <3>1, OriginNeighbours
  <2> HIDE DEF x, y
  <2>4. level(x) \in Int /\ level(y) \in Int
    BY <1>2, <2>1, SMTT(20)
  <2>5. CASE y = x + 1 /\ (x \in i + 1 .. end <=> y \in i + 1 .. end)
    <3>1. t[y].depth <= t[x].depth + 1 /\ t[x].depth \in Nat /\ t[y].depth \in Nat
      BY <1>2, <1>4, <2>1, <2>5
    <3>2. level(y) <= level(x) + 1
      <4>1. CASE x \in i + 1 .. end
        <5>1. level(x) = t[x].depth - 1 /\ level(y) = t[y].depth - 1
          BY <2>5, <4>1
        <5> QED
          BY <3>1, <5>1, SMTT(20)
      <4>2. CASE x \notin i + 1 .. end
        <5>1. level(x) = t[x].depth /\ level(y) = t[y].depth
          BY <2>5, <4>2
        <5> QED
          BY <3>1, <5>1
      <4> QED
        BY <4>1, <4>2
    <3> QED
      BY <2>1, <3>2
  <2>6. CASE /\ x = i - 1 \/ x \in end + 1 .. arrayEnd \/ x \in i + 1 .. end
             /\ y = end + 1 \/ y = arrayEnd + 1 \/ (y = i + 1 /\ i + 1 <= end)
    <3>1. level(x) >= d - 1
      <4>1. CASE x = i - 1
        <5>1. i - 1 \in 1 .. Len(t) - 1 /\ i - 1 \in 1 .. Len(t) /\ (i - 1) + 1 = i
          BY <1>2, <2>1, <4>1
        <5>2. d <= t[i - 1].depth + 1 /\ t[i - 1].depth \in Nat
          BY <1>2, <1>4, <5>1
        <5>3. level(x) = t[i - 1].depth
          BY <4>1
        <5> QED
          BY <1>2, <5>2, <5>3, SMTT(20)
      <4>2. CASE x \in end + 1 .. arrayEnd
        <5>1. x \in i + 1 .. arrayEnd /\ x \notin i + 1 .. end
          BY <2>2, <4>2
        <5>2. level(x) = t[x].depth /\ t[x].depth >= d
          BY <1>3, <5>1
        <5> QED
          BY <1>2, <2>4, <5>2
      <4>3. CASE x \in i + 1 .. end
        <5>1. level(x) = t[x].depth - 1 /\ t[x].depth >= d + 1 /\ t[x].depth \in Nat
          BY <1>2, <1>3, <2>1, <4>3
        <5> QED
          BY <1>2, <5>1, SMTT(20)
      <4> QED
        BY <2>6, <4>1, <4>2, <4>3
    <3>2. level(y) <= d
      <4>1. CASE y = end + 1
        <5>1. level(y) = t[end + 1].depth /\ t[end + 1].depth < d + 1 /\ t[end + 1].depth \in Nat
          BY <1>2, <1>3, <2>1, <2>2, <4>1
        <5> QED
          BY <1>2, <5>1
      <4>2. CASE y = arrayEnd + 1
        <5>1. /\ level(y) = t[arrayEnd + 1].depth
              /\ t[arrayEnd + 1].depth < d /\ t[arrayEnd + 1].depth \in Nat
          BY <1>2, <1>3, <2>1, <2>2, <4>2
        <5> QED
          BY <1>2, <5>1
      <4>3. CASE y = i + 1 /\ i + 1 <= end
        <5>1. /\ level(y) = t[i + 1].depth - 1
              /\ t[i + 1].depth <= t[i].depth + 1 /\ t[i + 1].depth \in Nat
          BY <1>2, <1>4, <2>1, <2>2, <4>3
        <5> QED
          BY <1>2, <5>1
      <4> QED
        BY <2>6, <4>1, <4>2, <4>3
    <3> HIDE DEF level
    <3> QED
      BY <1>2, <2>1, <2>4, <3>1, <3>2, SMTT(20)
  <2> QED
    BY <2>3, <2>5, <2>6
<1>8. Len(t) - 1 >= 1 => new[1].depth = 0
  <2> SUFFICES ASSUME Len(t) - 1 >= 1
               PROVE  new[1].depth = 0
    OBVIOUS
  <2>1. 1 \in 1 .. Len(t) - 1 /\ 1 \in 1 .. Len(t)
    BY <1>2
  <2>2. /\ new[1].depth = level(o(1))
        /\ o(1) \in 1 .. Len(t)
    BY <1>6, <2>1
  <2>3. CASE i > 1
    <3>1. o(1) = 1 /\ 1 \notin i + 1 .. end
      BY <1>1, <1>2, <2>3 DEF Origin
    <3> QED
      BY <1>5, <2>2, <3>1
  <2>4. CASE i = 1
    <3>1. d = 0
      BY <1>2, <1>5, <2>4
    <3>2. CASE end < arrayEnd
      <4>1. o(1) = end + 1 /\ o(1) \notin i + 1 .. end
        BY <1>1, <1>2, <2>4, <3>2 DEF Origin
      <4>2. t[end + 1].depth < d + 1 /\ t[end + 1].depth \in Nat
        BY <1>1, <1>2, <1>3, <3>2
      <4> QED
        BY <2>2, <3>1, <4>1, <4>2
    <3>3. CASE end = arrayEnd
      <4>1. arrayEnd = Len(t)
        <5> SUFFICES ASSUME arrayEnd # Len(t)
                     PROVE  FALSE
          OBVIOUS
        <5>1. t[arrayEnd + 1].depth < 0 /\ t[arrayEnd + 1].depth \in Nat
          BY <1>1, <1>2, <1>3, <3>1
        <5> QED
          BY <5>1
      <4>2. o(1) = 2 /\ 2 \in i + 1 .. end
        BY <1>1, <1>2, <2>1, <2>4, <3>3, <4>1 DEF Origin
      <4>3. t[2].depth <= 0 + 1 /\ t[2].depth >= 0 + 1 /\ t[2].depth \in Nat
        BY <1>1, <1>2, <1>3, <1>4, <2>1, <2>4, <3>1, <4>2, SMTT(20)
      <4> QED
        BY <2>2, <4>2, <4>3
    <3> QED
      BY <1>1, <1>2, <3>2, <3>3
  <2> QED
    BY <2>3, <2>4
<1>9. new # << >> => Len(t) - 1 >= 1
  BY <1>1, <1>2, EmptySeq DEF Tree
<1>10. \A k \in 1 .. Len(new) - 1 : new[k + 1].depth <= new[k].depth + 1
  <2> SUFFICES ASSUME NEW k \in 1 .. Len(new) - 1
               PROVE  new[k + 1].depth <= new[k].depth + 1
    OBVIOUS
  <2>1. k \in 1 .. Len(t) - 1 /\ k + 1 \in 1 .. Len(t) - 1
    BY <1>1, <1>2
  <2> QED
    BY <1>7, <2>1
<1> QED
  BY <1>8, <1>9, <1>10 DEF WellNested, new

(***************************************************************************)
(* The parent of a tag.                                                    *)
(***************************************************************************)

(* q is the last position before i of a tag less deep than the one at i, 0 *)
(* if there is none.                                                       *)
IsParent(t, i, q) ==
    /\ q \in 0 .. i - 1
    /\ q # 0 => t[q].depth < t[i].depth
    /\ \A k \in q + 1 .. i - 1 : t[k].depth >= t[i].depth

(* The greatest element of a set of numbers up to n.                       *)
LEMMA MaxIsGreatest ==
    ASSUME NEW n \in Nat, NEW S, S \subseteq 1 .. n, S # {}
    PROVE  Max(S) \in S /\ \A x \in S : Max(S) >= x
<1> DEFINE R == {n - x : x \in S}
<1>1. R \subseteq Nat /\ R # {}
  <2>1. \A x \in S : x \in 1 .. n /\ n - x \in Nat
    OBVIOUS
  <2> QED
    BY <2>1
<1>2. Min(R) \in R /\ \A y \in R : Min(R) <= y
  <2> HIDE DEF R
  <2> QED
    BY <1>1, MinIsLeast
<1>3. PICK m \in S : Min(R) = n - m
  BY <1>2
<1>4. \A x \in S : m >= x
  <2> SUFFICES ASSUME NEW x \in S
               PROVE  m >= x
    OBVIOUS
  <2>1. n - m <= n - x /\ x \in 1 .. n /\ m \in 1 .. n
    BY <1>2, <1>3
  <2> QED
    BY <2>1
<1> QED
  BY <1>4 DEF Max

(* The position that ParentOf takes with Max is the parent: the last       *)
(* shallower tag before a tag.                                             *)
LEMMA ParentOfIsParent ==
    ASSUME NEW t \in Tree, NEW i \in 1 .. Len(t)
    PROVE  IsParent(t, i, ParentOf(t, i))
<1> DEFINE S == {k \in 1 .. i - 1 : t[k].depth < t[i].depth}
           q == ParentOf(t, i)
<1>1. /\ Len(t) \in Nat /\ i \in Nat /\ i - 1 \in Nat /\ i - 1 <= Len(t)
      /\ \A k \in 1 .. Len(t) : t[k].depth \in Nat
  BY TreeElements
<1>2. q = IF S # {} THEN Max(S) ELSE 0
  BY DEF ParentOf, SelectLastInSubSeq
<1>3. S \subseteq 1 .. i - 1
  OBVIOUS
<1>4. \A k \in 1 .. i - 1 : k \notin S => t[k].depth >= t[i].depth
  BY <1>1
<1>5. \A k \in S : t[k].depth < t[i].depth
  OBVIOUS
<1> HIDE DEF S, q
<1>6. CASE S = {}
  <2>1. q = 0
    BY <1>2, <1>6
  <2> QED
    BY <1>1, <1>4, <1>6, <2>1 DEF IsParent, q
<1>7. CASE S # {}
  <2>1. q \in S /\ \A k \in S : q >= k
    BY <1>1, <1>2, <1>3, <1>7, MaxIsGreatest
  <2>2. q \in 1 .. i - 1 /\ t[q].depth < t[i].depth
    BY <1>3, <1>5, <2>1
  <2>3. \A k \in q + 1 .. i - 1 : k \in 1 .. i - 1 /\ k \notin S
    BY <1>1, <2>1, <2>2
  <2> QED
    BY <1>1, <1>4, <2>2, <2>3 DEF IsParent, q
<1> QED
  BY <1>6, <1>7

(* There is only one such position.                                        *)
LEMMA OneParent ==
    ASSUME NEW t \in Tree, NEW i \in 1 .. Len(t), NEW q, IsParent(t, i, q)
    PROVE  ParentOf(t, i) = q
<1> DEFINE r == ParentOf(t, i)
<1>1. IsParent(t, i, r)
  BY ParentOfIsParent
<1> HIDE DEF r
<1>2. Len(t) \in Nat /\ \A k \in 1 .. Len(t) : t[k].depth \in Nat
  BY TreeElements
<1>3. q \in 0 .. i - 1 /\ r \in 0 .. i - 1
  BY <1>1 DEF IsParent
<1>4. ~ (q < r)
  <2> SUFFICES ASSUME q < r
               PROVE  FALSE
    OBVIOUS
  <2>1. r \in q + 1 .. i - 1 /\ r # 0 /\ r \in 1 .. Len(t)
    BY <1>2, <1>3
  <2>2. t[r].depth >= t[i].depth /\ t[r].depth < t[i].depth
    BY <1>1, <2>1 DEF IsParent
  <2> QED
    BY <1>2, <2>1, <2>2
<1>5. ~ (r < q)
  <2> SUFFICES ASSUME r < q
               PROVE  FALSE
    OBVIOUS
  <2>1. q \in r + 1 .. i - 1 /\ q # 0 /\ q \in 1 .. Len(t)
    BY <1>2, <1>3
  <2>2. t[q].depth >= t[i].depth /\ t[q].depth < t[i].depth
    BY <1>1, <2>1 DEF IsParent
  <2> QED
    BY <1>2, <2>1, <2>2
<1> QED
  BY <1>3, <1>4, <1>5 DEF r

(***************************************************************************)
(* The parents after a command.                                            *)
(***************************************************************************)

(* A tag added at the top level has no parent, the others keep theirs.     *)
LEMMA AddTagParents ==
    ASSUME NEW t \in Tree, NEW tag \in Name, NEW a \in BOOLEAN
    PROVE  LET new == add_tag(t, tag, a)
           IN  /\ \A k \in 1 .. Len(t) : ParentOf(new, k) = ParentOf(t, k)
               /\ ParentOf(new, Len(t) + 1) = 0
<1> DEFINE new == add_tag(t, tag, a)
<1>1. /\ new \in Tree
      /\ Len(new) = Len(t) + 1
      /\ \A k \in 1 .. Len(t) : new[k] = t[k]
      /\ new[Len(t) + 1].depth = 0
  <2>1. new_tag(tag, a, 0).depth = 0
    BY DEF new_tag
  <2> QED
    BY <2>1, AddTagResult
<1>2. Len(t) \in Nat /\ \A k \in 1 .. Len(t) : t[k].depth \in Nat
  BY TreeElements
<1> HIDE DEF new
<1>3. ASSUME NEW k \in 1 .. Len(t)
      PROVE  ParentOf(new, k) = ParentOf(t, k)
  <2> DEFINE q == ParentOf(t, k)
  <2>1. IsParent(t, k, q)
    BY ParentOfIsParent
  <2> HIDE DEF q
  <2>2. IsParent(new, k, q)
    <3>1. \A j \in q + 1 .. k - 1 : j \in 1 .. Len(t)
      BY <1>2, <2>1 DEF IsParent
    <3>2. q # 0 => q \in 1 .. Len(t)
      BY <1>2, <2>1 DEF IsParent
    <3> QED
      BY <1>1, <2>1, <3>1, <3>2 DEF IsParent
  <2>3. k \in 1 .. Len(new)
    BY <1>1, <1>2
  <2> QED
    BY <1>1, <2>2, <2>3, OneParent DEF q
<1>4. ParentOf(new, Len(t) + 1) = 0
  <2>1. IsParent(new, Len(t) + 1, 0)
    BY <1>1, <1>2 DEF IsParent
  <2>2. Len(t) + 1 \in 1 .. Len(new)
    BY <1>1, <1>2
  <2> QED
    BY <1>1, <2>1, <2>2, OneParent
<1> QED
  BY <1>3, <1>4 DEF new

(* A tag added to a parent has that parent.  The others keep theirs, and   *)
(* those behind the new tag, parents or not, are one position on.          *)
LEMMA AddToParentParents ==
    ASSUME NEW t \in Tree, NEW i \in 1 .. Len(t), NEW tag \in Name, NEW a \in BOOLEAN
    PROVE  LET new == add_to_parent(t, i, tag, a)
               end == EndOfArray(t, i, t[i].depth + 1)
           IN  /\ ParentOf(new, end + 1) = i
               /\ \A k \in 1 .. end : ParentOf(new, k) = ParentOf(t, k)
               /\ \A k \in end + 1 .. Len(t) :
                      ParentOf(new, k + 1) =
                          IF ParentOf(t, k) <= end THEN ParentOf(t, k) ELSE ParentOf(t, k) + 1
<1> DEFINE new == add_to_parent(t, i, tag, a)
           d   == t[i].depth + 1
           end == EndOfArray(t, i, d)
<1>1. /\ new \in Tree
      /\ Len(new) = Len(t) + 1
      /\ \A k \in 1 .. Len(t) + 1 :
             new[k] = IF k <= end THEN t[k]
                      ELSE IF k = end + 1 THEN new_tag(tag, a, d)
                      ELSE t[k - 1]
  BY AddToParentResult
<1>2. Len(t) \in Nat /\ \A k \in 1 .. Len(t) : t[k].depth \in Nat
  BY TreeElements
<1>3. d \in Nat /\ d = t[i].depth + 1 /\ new_tag(tag, a, d).depth = d
  BY <1>2 DEF new_tag
<1> HIDE DEF new, d
<1>4. /\ end \in i .. Len(t)
      /\ \A k \in i + 1 .. end : t[k].depth >= d
      /\ end = Len(t) \/ t[end + 1].depth < d
  BY <1>3, EndOfArrayBounds
<1> HIDE DEF end
<1>5. \A k \in 1 .. end : k \in 1 .. Len(t) /\ new[k] = t[k]
  BY <1>1, <1>2, <1>4
<1>6. new[end + 1].depth = d
  BY <1>1, <1>2, <1>3, <1>4
<1>7. \A k \in end + 1 .. Len(t) : k \in 1 .. Len(t) /\ new[k + 1] = t[k]
  <2> SUFFICES ASSUME NEW k \in end + 1 .. Len(t)
               PROVE  k \in 1 .. Len(t) /\ new[k + 1] = t[k]
    OBVIOUS
  <2>1. /\ k + 1 \in 1 .. Len(t) + 1 /\ ~ (k + 1 <= end) /\ k + 1 # end + 1
        /\ (k + 1) - 1 = k /\ k \in 1 .. Len(t)
    BY <1>2, <1>4
  <2> QED
    BY <1>1, <2>1
<1>8. ParentOf(new, end + 1) = i
  <2>1. \A k \in i + 1 .. end : new[k].depth >= d
    BY <1>2, <1>4, <1>5
  <2>2. new[i].depth < d
    BY <1>2, <1>3, <1>4, <1>5
  <2>3. IsParent(new, end + 1, i)
    BY <1>2, <1>4, <1>6, <2>1, <2>2 DEF IsParent
  <2>4. end + 1 \in 1 .. Len(new)
    BY <1>1, <1>2, <1>4
  <2> QED
    BY <1>1, <2>3, <2>4, OneParent
<1>9. ASSUME NEW k \in 1 .. end
      PROVE  ParentOf(new, k) = ParentOf(t, k)
  <2> DEFINE q == ParentOf(t, k)
  <2>1. k \in 1 .. Len(t) /\ k \in 1 .. Len(new) /\ k - 1 <= end
    BY <1>1, <1>2, <1>4
  <2>2. IsParent(t, k, q)
    BY <2>1, ParentOfIsParent
  <2> HIDE DEF q
  <2>3. /\ q # 0 => q \in 1 .. end
        /\ \A j \in q + 1 .. k - 1 : j \in 1 .. end
    BY <1>2, <1>4, <2>1, <2>2 DEF IsParent
  <2>4. IsParent(new, k, q)
    BY <1>5, <2>2, <2>3 DEF IsParent
  <2> QED
    BY <1>1, <2>1, <2>4, OneParent DEF q
<1>10. ASSUME NEW k \in end + 1 .. Len(t)
       PROVE  ParentOf(new, k + 1) =
                  IF ParentOf(t, k) <= end THEN ParentOf(t, k) ELSE ParentOf(t, k) + 1
  <2> DEFINE q == ParentOf(t, k)
             r == IF q <= end THEN q ELSE q + 1
  <2>1. k \in 1 .. Len(t) /\ k + 1 \in 1 .. Len(new) /\ end \in Nat
    BY <1>1, <1>2, <1>4
  <2>2. IsParent(t, k, q)
    BY <2>1, ParentOfIsParent
  <2> HIDE DEF q
  <2>3. /\ q \in 0 .. k - 1
        /\ q # 0 => t[q].depth < t[k].depth
        /\ \A j \in q + 1 .. k - 1 : t[j].depth >= t[k].depth
    BY <2>2 DEF IsParent
  <2>4. new[k + 1] = t[k]
    BY <1>7
  <2>5. r \in 0 .. k /\ r # 0 => new[r] = t[q] /\ q # 0
    <3>1. CASE q <= end
      BY <1>5, <2>1, <2>3, <3>1
    <3>2. CASE q > end
      <4>1. q \in end + 1 .. Len(t) /\ r = q + 1
        BY <2>1, <2>3, <3>2
      <4> QED
        BY <1>7, <2>1, <2>3, <4>1
    <3> QED
      BY <2>1, <2>3, <3>1, <3>2
  <2>6. ASSUME NEW j \in r + 1 .. k
        PROVE  new[j].depth >= t[k].depth
    <3>1. CASE j <= end
      <4>1. j \in 1 .. end /\ j \in q + 1 .. k - 1
        BY <2>1, <2>3, <3>1
      <4> QED
        BY <1>5, <2>3, <4>1
    <3>2. CASE j = end + 1
      <4>1. q <= end
        BY <2>1, <2>3, <3>2
      <4>2. end # Len(t) /\ end + 1 \in 1 .. Len(t)
        BY <1>2, <1>4
      <4>3. t[end + 1].depth < d /\ t[end + 1].depth \in Nat
        BY <1>2, <1>4, <4>2
      <4>4. CASE k = end + 1
        BY <1>3, <1>6, <3>2, <4>3, <4>4
      <4>5. CASE k > end + 1
        <5>1. end + 1 \in q + 1 .. k - 1
          BY <2>1, <2>3, <4>1, <4>5
        <5>2. t[end + 1].depth >= t[k].depth /\ t[k].depth \in Nat
          BY <1>2, <2>1, <2>3, <5>1
        <5> QED
          BY <1>3, <1>6, <3>2, <4>3, <5>2, SMTT(20)
      <4> QED
        BY <2>1, <4>4, <4>5
    <3>3. CASE j > end + 1
      <4>1. /\ j - 1 \in end + 1 .. Len(t) /\ (j - 1) + 1 = j
            /\ j - 1 \in q + 1 .. k - 1
        BY <1>2, <2>1, <2>3, <3>3
      <4> QED
        BY <1>7, <2>3, <4>1
    <3> QED
      BY <2>1, <2>3, <3>1, <3>2, <3>3
  <2>7. IsParent(new, k + 1, r)
    <3>1. r \in 0 .. (k + 1) - 1 /\ (k + 1) - 1 = k
      BY <2>1, <2>3
    <3> HIDE DEF r
    <3> QED
      BY <2>3, <2>4, <2>5, <2>6, <3>1 DEF IsParent
  <2> HIDE DEF r
  <2>8. ParentOf(new, k + 1) = r
    BY <1>1, <2>1, <2>7, OneParent
  <2> QED
    BY <2>8 DEF r, q
<1> QED
  BY <1>8, <1>9, <1>10 DEF new, end, d

(* Where the tags are after a removal: those before the removed tag, its   *)
(* uncles (the siblings that follow it, with what is below them), its      *)
(* children one level up, and those behind its array.                      *)
LEMMA RemoveTagRegions ==
    ASSUME NEW t \in Tree, NEW i \in 1 .. Len(t)
    PROVE  LET new      == remove_tag(t, i)
               end      == EndOfArray(t, i, t[i].depth + 1)
               arrayEnd == EndOfArray(t, i, t[i].depth)
               uncles   == arrayEnd - end
           IN  /\ \A k \in 1 .. i - 1 : new[k] = t[k]
               /\ \A k \in i .. i - 1 + uncles : new[k] = t[k + (end - i) + 1]
               /\ \A k \in i + uncles .. arrayEnd - 1 :
                      new[k] = [t[k - uncles + 1] EXCEPT !.depth = @ - 1]
               /\ \A k \in arrayEnd .. Len(t) - 1 : new[k] = t[k + 1]
<1> DEFINE new      == remove_tag(t, i)
           end      == EndOfArray(t, i, t[i].depth + 1)
           arrayEnd == EndOfArray(t, i, t[i].depth)
           uncles   == arrayEnd - end
           o(k)     == Origin(i, end, arrayEnd, k)
<1>1. /\ end \in i .. Len(t) /\ arrayEnd \in end .. Len(t)
      /\ \A k \in 1 .. Len(t) - 1 :
             new[k] = IF o(k) \in i + 1 .. end THEN [t[o(k)] EXCEPT !.depth = @ - 1]
                      ELSE t[o(k)]
  BY RemoveTagResult
<1>2. Len(t) \in Nat
  BY TreeElements
<1> HIDE DEF new, end, arrayEnd
<1>3. ASSUME NEW k \in 1 .. i - 1
      PROVE  new[k] = t[k]
  <2>1. k \in 1 .. Len(t) - 1 /\ o(k) = k /\ k \notin i + 1 .. end
    BY <1>1, <1>2 DEF Origin
  <2> HIDE DEF o
  <2> QED
    BY <1>1, <2>1
<1>4. ASSUME NEW k \in i .. i - 1 + uncles
      PROVE  new[k] = t[k + (end - i) + 1]
  <2>1. /\ k \in 1 .. Len(t) - 1 /\ o(k) = k + (end - i) + 1
        /\ k + (end - i) + 1 \notin i + 1 .. end
    BY <1>1, <1>2 DEF Origin
  <2> HIDE DEF o
  <2> QED
    BY <1>1, <2>1
<1>5. ASSUME NEW k \in i + uncles .. arrayEnd - 1
      PROVE  new[k] = [t[k - uncles + 1] EXCEPT !.depth = @ - 1]
  <2>1. /\ k \in 1 .. Len(t) - 1 /\ o(k) = k - uncles + 1
        /\ k - uncles + 1 \in i + 1 .. end
    BY <1>1, <1>2 DEF Origin
  <2> HIDE DEF o
  <2> QED
    BY <1>1, <2>1
<1>6. ASSUME NEW k \in arrayEnd .. Len(t) - 1
      PROVE  new[k] = t[k + 1]
  <2>1. k \in 1 .. Len(t) - 1 /\ o(k) = k + 1 /\ k + 1 \notin i + 1 .. end
    BY <1>1, <1>2 DEF Origin
  <2> HIDE DEF o
  <2> QED
    BY <1>1, <2>1
<1> QED
  BY <1>3, <1>4, <1>5, <1>6 DEF new, end, arrayEnd, uncles

(* Every tag but the removed one has a place in the new tree.              *)
LEMMA OriginCovers ==
    ASSUME NEW n \in Nat, NEW i \in 1 .. n, NEW end \in i .. n, NEW arrayEnd \in end .. n
    PROVE  /\ \A k \in 1 .. n - 1 : Origin(i, end, arrayEnd, k) # i
           /\ \A m \in 1 .. n : m # i => \E k \in 1 .. n - 1 : Origin(i, end, arrayEnd, k) = m
<1>1. ASSUME NEW k \in 1 .. n - 1
      PROVE  Origin(i, end, arrayEnd, k) # i
  BY DEF Origin
<1>2. ASSUME NEW m \in 1 .. n, m # i
      PROVE  \E k \in 1 .. n - 1 : Origin(i, end, arrayEnd, k) = m
  <2>1. CASE m < i
    <3>1. m \in 1 .. n - 1 /\ Origin(i, end, arrayEnd, m) = m
      BY <2>1 DEF Origin
    <3> QED
      BY <3>1
  <2>2. CASE m > i /\ m <= end
    <3> DEFINE k == m + (arrayEnd - end) - 1
    <3>1. k \in 1 .. n - 1 /\ Origin(i, end, arrayEnd, k) = m
      BY <2>2 DEF Origin
    <3> QED
      BY <3>1
  <2>3. CASE m > end /\ m <= arrayEnd
    <3> DEFINE k == m - (end - i) - 1
    <3>1. k \in 1 .. n - 1 /\ Origin(i, end, arrayEnd, k) = m
      BY <2>3 DEF Origin
    <3> QED
      BY <3>1
  <2>4. CASE m > arrayEnd
    <3>1. m - 1 \in 1 .. n - 1 /\ Origin(i, end, arrayEnd, m - 1) = m
      BY <2>4 DEF Origin
    <3> QED
      BY <3>1
  <2> QED
    BY <1>2, <2>1, <2>2, <2>3, <2>4
<1> QED
  BY <1>1, <1>2

(* Where the parent of the tag at position m is once the one at position i *)
(* is gone, in terms of the old positions.                                 *)
ParentLeft(t, i, m) == IF ParentOf(t, m) = i THEN ParentOf(t, i) ELSE ParentOf(t, m)

(* After a removal, the children of the removed tag have the parent that   *)
(* it had, and every other tag has its own.                                *)
LEMMA RemoveTagParents ==
    ASSUME NEW t \in Tree, WellNested(t), NEW i \in 1 .. Len(t), NEW k \in 1 .. Len(t) - 1
    PROVE  LET new      == remove_tag(t, i)
               end      == EndOfArray(t, i, t[i].depth + 1)
               arrayEnd == EndOfArray(t, i, t[i].depth)
               m        == Origin(i, end, arrayEnd, k)
           IN  Origin(i, end, arrayEnd, ParentOf(new, k)) = ParentLeft(t, i, m)
<1> DEFINE new      == remove_tag(t, i)
           d        == t[i].depth
           end      == EndOfArray(t, i, d + 1)
           arrayEnd == EndOfArray(t, i, d)
           uncles   == arrayEnd - end
           n        == Len(t)
           m        == Origin(i, end, arrayEnd, k)
           q        == ParentOf(t, m)
           r        == ParentOf(t, i)
<1> SUFFICES Origin(i, end, arrayEnd, ParentOf(new, k)) = ParentLeft(t, i, m)
  OBVIOUS
<1>1. /\ new \in Tree /\ Len(new) = n - 1
      /\ end \in i .. n /\ arrayEnd \in end .. n
  BY RemoveTagResult
<1>2. /\ n \in Nat /\ i \in 1 .. n /\ k \in 1 .. n - 1
      /\ \A x \in 1 .. n : t[x] \in Tag /\ t[x].depth \in Nat
      /\ d \in Nat /\ d + 1 \in Nat /\ d = t[i].depth
  BY TreeElements
<1>3. /\ \A x \in 1 .. i - 1 : new[x] = t[x]
      /\ \A x \in i .. i - 1 + uncles : new[x] = t[x + (end - i) + 1]
      /\ \A x \in i + uncles .. arrayEnd - 1 :
             new[x] = [t[x - uncles + 1] EXCEPT !.depth = @ - 1]
      /\ \A x \in arrayEnd .. n - 1 : new[x] = t[x + 1]
  BY RemoveTagRegions
<1> HIDE DEF new, d
<1>4. /\ \A x \in i + 1 .. end : t[x].depth >= d + 1
      /\ end = n \/ t[end + 1].depth < d + 1
      /\ \A x \in i + 1 .. arrayEnd : t[x].depth >= d
      /\ arrayEnd = n \/ t[arrayEnd + 1].depth < d
  BY <1>2, EndOfArrayBounds
<1>5. \A x \in 1 .. n - 1 : t[x + 1].depth <= t[x].depth + 1
  BY DEF WellNested
<1>6. IsParent(t, i, r)
  BY ParentOfIsParent
<1>7. m \in 1 .. n
  <2> HIDE DEF end, arrayEnd
  <2> QED
    BY <1>1, <1>2, OriginInTree
<1>8. IsParent(t, m, q)
  BY <1>7, ParentOfIsParent
<1> DEFINE left == IF q = i THEN r ELSE q
<1>9. ParentLeft(t, i, m) = left
  BY DEF ParentLeft
<1> HIDE DEF end, arrayEnd, q, r, n
<1>10. /\ i \in Nat /\ end \in Nat /\ arrayEnd \in Nat /\ n \in Nat /\ k \in Nat /\ d \in Nat
      /\ 1 <= i /\ i <= end /\ end <= arrayEnd /\ arrayEnd <= n /\ 1 <= k /\ k <= n - 1
  BY <1>1, <1>2
<1>11. /\ r \in 0 .. i - 1
       /\ r # 0 => t[r].depth < d
       /\ \A x \in r + 1 .. i - 1 : t[x].depth >= d
  BY <1>2, <1>6 DEF IsParent
<1>12. /\ q \in 0 .. m - 1
       /\ q # 0 => t[q].depth < t[m].depth
       /\ \A x \in q + 1 .. m - 1 : t[x].depth >= t[m].depth
  BY <1>8 DEF IsParent
<1>13. ASSUME NEW p \in 0 .. k - 1, IsParent(new, k, p), Origin(i, end, arrayEnd, p) = left
       PROVE  Origin(i, end, arrayEnd, ParentOf(new, k)) = ParentLeft(t, i, m)
  <2>1. k \in 1 .. Len(new)
    BY <1>1, <1>2
  <2>2. ParentOf(new, k) = p
    BY <1>1, <1>13, <2>1, OneParent
  <2> QED
    BY <1>13, <1>9, <2>2
\* The depths in the new tree, where it matters how deep the tags are.
<1>14. \A x \in i .. i - 1 + uncles : new[x].depth >= d /\ new[x].depth \in Nat
  <2> SUFFICES ASSUME NEW x \in i .. i - 1 + uncles
               PROVE  new[x].depth >= d /\ new[x].depth \in Nat
    OBVIOUS
  <2> DEFINE y == x + (end - i) + 1
  <2>1. y \in i + 1 .. arrayEnd /\ y \in 1 .. n
    BY <1>10
  <2>2. new[x] = t[y]
    BY <1>3
  <2> HIDE DEF y
  <2> QED
    BY <1>2, <1>4, <2>1, <2>2
<1>15. \A x \in i + uncles .. arrayEnd - 1 :
           LET y == x - uncles + 1
           IN  /\ y \in i + 1 .. end /\ y \in 1 .. n
               /\ new[x].depth = t[y].depth - 1 /\ new[x].name = t[y].name
               /\ new[x].depth >= d
  <2> SUFFICES ASSUME NEW x \in i + uncles .. arrayEnd - 1
               PROVE  LET y == x - uncles + 1
                      IN  /\ y \in i + 1 .. end /\ y \in 1 .. n
                          /\ new[x].depth = t[y].depth - 1 /\ new[x].name = t[y].name
                          /\ new[x].depth >= d
    OBVIOUS
  <2> DEFINE y == x - uncles + 1
  <2>1. y \in i + 1 .. end /\ y \in 1 .. n
    BY <1>10
  <2>2. new[x] = [t[y] EXCEPT !.depth = @ - 1]
    BY <1>3
  <2>3. t[y] \in Tag /\ t[y].depth \in Nat /\ t[y].depth >= d + 1
    BY <1>2, <1>4, <2>1
  <2> HIDE DEF y
  <2>4. new[x].depth = t[y].depth - 1 /\ new[x].name = t[y].name
    BY <2>2, <2>3 DEF Tag
  <2>5. new[x].depth >= d
    BY <1>10, <2>3, <2>4
  <2> QED
    BY <2>1, <2>4, <2>5 DEF y
\* A tag before the removed one.
<1>16. CASE k <= i - 1
  <2>1. m = k
    BY <1>10, <1>16 DEF Origin
  <2>2. q < i
    BY <1>10, <1>12, <1>16, <2>1
  <2> HIDE DEF m
  <2>3. \A x \in 0 .. k : x # 0 => new[x] = t[x]
    BY <1>3, <1>10, <1>16
  <2>4. new[k] = t[k] /\ (q # 0 => new[q] = t[q]) /\ \A x \in q + 1 .. k - 1 : new[x] = t[x]
    <3>1. q \in 0 .. k /\ k \in 0 .. k /\ k # 0 /\ \A x \in q + 1 .. k - 1 : x \in 0 .. k /\ x # 0
      BY <1>10, <1>12, <2>1
    <3> QED
      BY <2>3, <3>1
  <2>5. IsParent(new, k, q)
    BY <1>12, <2>1, <2>4 DEF IsParent
  <2>6. Origin(i, end, arrayEnd, q) = left
    BY <1>10, <2>2, <2>4, <1>12 DEF Origin
  <2> QED
    BY <1>12, <1>13, <2>1, <2>5, <2>6
\* A sibling that followed it, or what is below one.
<1>17. CASE k > i - 1 /\ k <= i - 1 + uncles
  <2>1. m = k + (end - i) + 1 /\ m \in end + 1 .. arrayEnd /\ k \in i .. i - 1 + uncles
    BY <1>10, <1>17 DEF Origin
  <2> HIDE DEF m
  <2>2. new[k] = t[m] /\ t[m].depth >= d /\ t[m].depth \in Nat
    <3>1. m \in i + 1 .. arrayEnd /\ m \in 1 .. n
      BY <1>10, <2>1
    <3>2. new[k] = t[m]
      BY <1>3, <2>1
    <3> QED
      BY <1>2, <1>4, <3>1, <3>2
  <2>3. t[end + 1].depth < d + 1 /\ t[end + 1].depth \in Nat
    <3>1. end # n /\ end + 1 \in 1 .. n
      BY <1>10, <2>1
    <3> QED
      BY <1>2, <1>4, <3>1
  <2>4. CASE t[m].depth > d
    <3>1. m # end + 1 /\ q >= end + 1
      <4>1. m # end + 1
        BY <1>10, <2>2, <2>3, <2>4
      <4>2. ~ (end + 1 \in q + 1 .. m - 1)
        BY <1>10, <1>12, <2>2, <2>3, <2>4, SMTT(20)
      <4> QED
        BY <1>10, <1>12, <2>1, <4>1, <4>2
    <3> DEFINE p == q - (end - i) - 1
    <3>2. /\ p \in i .. k - 1 /\ p \in i .. i - 1 + uncles
          /\ p + (end - i) + 1 = q /\ q # i /\ q # 0 /\ p # 0
      BY <1>10, <1>12, <2>1, <3>1
    <3>3. new[p] = t[q]
      BY <1>3, <3>2
    <3>4. ASSUME NEW x \in p + 1 .. k - 1
          PROVE  new[x].depth >= new[k].depth
      <4> DEFINE y == x + (end - i) + 1
      <4>1. y \in q + 1 .. m - 1 /\ x \in i .. i - 1 + uncles
        <5>1. x \in Int /\ p + 1 <= x /\ x <= k - 1 /\ p = q - (end - i) - 1 /\ q \in Int
          BY <1>10, <1>12, <2>1, <3>2
        <5>2. y >= q + 1 /\ y <= m - 1 /\ y \in Int
          BY <1>10, <2>1, <5>1
        <5>3. x >= i /\ x <= i - 1 + uncles
          BY <1>10, <2>1, <3>2, <5>1
        <5> QED
          BY <1>10, <2>1, <5>1, <5>2, <5>3
      <4>2. new[x] = t[y]
        BY <1>3, <4>1
      <4> HIDE DEF y
      <4> QED
        BY <1>12, <2>2, <4>1, <4>2
    <3> HIDE DEF p
    <3>5. p \in 0 .. k - 1
      BY <1>10, <3>2
    <3>6. IsParent(new, k, p)
      BY <1>12, <2>2, <3>2, <3>3, <3>4, <3>5 DEF IsParent
    <3>7. Origin(i, end, arrayEnd, p) = left
      BY <1>10, <2>1, <3>2 DEF Origin
    <3> QED
      BY <1>13, <3>5, <3>6, <3>7
  <2>5. CASE t[m].depth = d
    <3>1. q < i
      <4> SUFFICES ASSUME q >= i
                   PROVE  FALSE
        BY <1>10, <1>12, <2>1
      <4>1. q = i \/ q \in i + 1 .. arrayEnd
        BY <1>10, <1>12, <2>1
      <4>2. q # 0 /\ q \in 1 .. n
        BY <1>10, <4>1
      <4>3. t[q].depth >= d
        BY <1>2, <1>4, <1>10, <4>1
      <4> QED
        BY <1>2, <1>10, <1>12, <2>5, <4>2, <4>3
    <3>2. q # 0 => q \in 1 .. i - 1 /\ new[q] = t[q]
      <4>1. q # 0 => q \in 1 .. i - 1
        BY <1>10, <1>12, <2>1, <3>1
      <4> QED
        BY <1>3, <4>1
    <3>3. ASSUME NEW x \in q + 1 .. k - 1
          PROVE  new[x].depth >= new[k].depth
      <4>1. CASE x <= i - 1
        <5>1. x \in 1 .. i - 1 /\ x \in q + 1 .. m - 1
          BY <1>10, <1>12, <2>1, <4>1
        <5> QED
          BY <1>3, <1>12, <2>2, <5>1
      <4>2. CASE x > i - 1
        <5>1. x \in i .. i - 1 + uncles
          BY <1>10, <1>12, <2>1, <4>2
        <5> QED
          BY <1>14, <2>2, <2>5, <5>1
      <4> QED
        BY <1>10, <1>12, <2>1, <4>1, <4>2
    <3>4. q \in 0 .. k - 1 /\ q # i
      BY <1>10, <1>12, <2>1, <3>1
    <3>5. IsParent(new, k, q)
      BY <1>12, <2>2, <3>2, <3>3, <3>4 DEF IsParent
    <3>6. Origin(i, end, arrayEnd, q) = left
      BY <3>2, <3>4 DEF Origin
    <3> QED
      BY <1>13, <3>4, <3>5, <3>6
  <2> QED
    BY <1>10, <2>2, <2>4, <2>5
\* A tag that was below the removed one.
<1>18. CASE k > i - 1 + uncles /\ k <= arrayEnd - 1
  <2>1. m = k - uncles + 1 /\ m \in i + 1 .. end /\ k \in i + uncles .. arrayEnd - 1
    BY <1>10, <1>18 DEF Origin
  <2> HIDE DEF m
  <2>2. /\ new[k].depth = t[m].depth - 1 /\ t[m].depth \in Nat /\ t[m].depth >= d + 1
        /\ m \in 1 .. n
    BY <1>2, <1>4, <1>10, <1>15, <2>1
  <2>3. q >= i
    <3> SUFFICES ASSUME q < i
                 PROVE  FALSE
      BY <1>10, <1>12, <2>1
    <3>1. i \in q + 1 .. m - 1
      BY <1>10, <1>12, <2>1
    <3>2. d >= t[m].depth
      BY <1>2, <1>12, <3>1
    <3> QED
      BY <1>10, <2>2, <3>2
  <2>4. CASE q > i
    <3> DEFINE p == q + uncles - 1
    <3>1. /\ p \in i + uncles .. k - 1 /\ p \in i + uncles .. arrayEnd - 1 /\ p - uncles + 1 = q
          /\ q # i /\ q # 0 /\ p # 0 /\ q \in 1 .. n
      BY <1>10, <1>12, <2>1, <2>4
    <3>2. new[p].depth = t[q].depth - 1 /\ new[p].name = t[q].name /\ t[q].depth \in Nat
      BY <1>2, <1>15, <3>1
    <3>3. ASSUME NEW x \in p + 1 .. k - 1
          PROVE  new[x].depth >= new[k].depth
      <4> DEFINE y == x - uncles + 1
      <4>1. y \in q + 1 .. m - 1 /\ x \in i + uncles .. arrayEnd - 1
        <5>1. x \in Int /\ p + 1 <= x /\ x <= k - 1 /\ p = q + uncles - 1 /\ q \in Int
          BY <1>10, <1>12, <2>1, <3>1
        <5>2. y >= q + 1 /\ y <= m - 1 /\ y \in Int
          BY <1>10, <2>1, <5>1
        <5>3. x >= i + uncles /\ x <= arrayEnd - 1
          BY <1>10, <2>1, <3>1, <5>1
        <5> QED
          BY <1>10, <2>1, <5>1, <5>2, <5>3
      <4>2. new[x].depth = t[y].depth - 1 /\ y \in 1 .. n
        BY <1>15, <4>1
      <4>3. t[y].depth >= t[m].depth /\ t[y].depth \in Nat
        <5> HIDE DEF y
        <5> QED
          BY <1>2, <1>12, <4>1, <4>2
      <4> HIDE DEF y
      <4> QED
        BY <2>2, <4>2, <4>3, SMTT(20)
    <3> HIDE DEF p
    <3>4. p \in 0 .. k - 1
      BY <1>10, <3>1
    <3>5. new[p].depth < new[k].depth
      <4>1. t[q].depth < t[m].depth
        BY <1>12, <3>1
      <4> QED
        BY <2>2, <3>2, <4>1, SMTT(20)
    <3>6. IsParent(new, k, p)
      BY <3>3, <3>4, <3>5 DEF IsParent
    <3>7. Origin(i, end, arrayEnd, p) = left
      BY <1>10, <2>1, <3>1 DEF Origin
    <3> QED
      BY <1>13, <3>4, <3>6, <3>7
  <2>5. CASE q = i
    <3>1. t[m].depth = d + 1
      <4>1. t[i + 1].depth <= d + 1 /\ t[i + 1].depth \in Nat
        BY <1>2, <1>5, <1>10, <2>1
      <4>2. m = i + 1 \/ t[i + 1].depth >= t[m].depth
        BY <1>10, <1>12, <2>1, <2>5, SMTT(20)
      <4> QED
        BY <1>10, <2>2, <4>1, <4>2
    <3>2. new[k].depth = d
      BY <1>10, <2>2, <3>1
    <3>3. r # 0 => r \in 1 .. i - 1 /\ new[r] = t[r]
      BY <1>3, <1>10, <1>11
    <3>4. ASSUME NEW x \in r + 1 .. k - 1
          PROVE  new[x].depth >= new[k].depth
      <4>1. CASE x <= i - 1
        <5>1. x \in 1 .. i - 1 /\ x \in r + 1 .. i - 1
          BY <1>10, <1>11, <4>1
        <5> QED
          BY <1>3, <1>11, <3>2, <5>1
      <4>2. CASE x \in i .. i - 1 + uncles
        BY <1>14, <3>2, <4>2
      <4>3. CASE x \in i + uncles .. arrayEnd - 1
        BY <1>15, <3>2, <4>3
      <4> QED
        BY <1>10, <1>11, <2>1, <4>1, <4>2, <4>3
    <3>5. r \in 0 .. k - 1
      BY <1>10, <1>11, <2>1
    <3>6. IsParent(new, k, r)
      BY <1>11, <3>2, <3>3, <3>4, <3>5 DEF IsParent
    <3>7. Origin(i, end, arrayEnd, r) = left
      BY <2>5, <3>3 DEF Origin
    <3> QED
      BY <1>13, <3>5, <3>6, <3>7
  <2> QED
    BY <1>10, <1>12, <2>1, <2>3, <2>4, <2>5
\* A tag behind the array of the removed one.
<1>19. CASE k > arrayEnd - 1
  <2>1. m = k + 1 /\ m \in arrayEnd + 1 .. n /\ k \in arrayEnd .. n - 1
    BY <1>10, <1>19 DEF Origin
  <2> HIDE DEF m
  <2>2. new[k] = t[m] /\ t[m].depth \in Nat
    BY <1>2, <1>3, <1>10, <2>1, SMTT(20)
  <2>3. CASE q > arrayEnd
    <3> DEFINE p == q - 1
    <3>1. p \in arrayEnd .. k - 1 /\ p \in arrayEnd .. n - 1 /\ p + 1 = q /\ q # i /\ q # 0 /\ p # 0
      BY <1>10, <1>12, <2>1, <2>3
    <3>2. new[p] = t[q]
      BY <1>3, <3>1
    <3>3. ASSUME NEW x \in p + 1 .. k - 1
          PROVE  new[x].depth >= new[k].depth
      <4>1. x + 1 \in q + 1 .. m - 1 /\ x \in arrayEnd .. n - 1
        BY <1>10, <1>12, <2>1, <2>3
      <4> QED
        BY <1>3, <1>12, <2>2, <4>1
    <3> HIDE DEF p
    <3>4. p \in 0 .. k - 1
      BY <1>10, <3>1
    <3>5. IsParent(new, k, p)
      BY <1>12, <2>2, <3>1, <3>2, <3>3, <3>4 DEF IsParent
    <3>6. Origin(i, end, arrayEnd, p) = left
      BY <1>10, <2>1, <3>1 DEF Origin
    <3> QED
      BY <1>13, <3>4, <3>5, <3>6
  <2>4. CASE q <= arrayEnd
    <3>1. t[m].depth < d
      <4>1. t[arrayEnd + 1].depth < d /\ t[arrayEnd + 1].depth \in Nat
        BY <1>2, <1>4, <1>10, <2>1
      <4>2. m = arrayEnd + 1 \/ t[arrayEnd + 1].depth >= t[m].depth
        BY <1>10, <1>12, <2>1, <2>4
      <4> QED
        BY <1>10, <2>2, <4>1, <4>2
    <3>2. q < i
      <4> SUFFICES ASSUME q >= i
                   PROVE  FALSE
        BY <1>10, <1>12, <2>1
      <4>1. (q = i \/ q \in i + 1 .. arrayEnd) /\ q # 0 /\ q \in 1 .. n
        BY <1>10, <1>12, <2>1, <2>4
      <4>2. t[q].depth >= d
        BY <1>2, <1>4, <1>10, <4>1
      <4>3. t[q].depth < t[m].depth /\ t[q].depth \in Nat
        BY <1>2, <1>12, <4>1
      <4> QED
        BY <1>10, <2>2, <3>1, <4>2, <4>3, SMTT(20)
    <3>3. q # 0 => q \in 1 .. i - 1 /\ new[q] = t[q]
      BY <1>3, <1>10, <1>12, <2>1, <3>2, SMTT(20)
    <3>4. ASSUME NEW x \in q + 1 .. k - 1
          PROVE  new[x].depth >= new[k].depth
      <4>1. CASE x <= i - 1
        <5>1. x \in 1 .. i - 1 /\ x \in q + 1 .. m - 1
          BY <1>10, <1>12, <2>1, <4>1
        <5> QED
          BY <1>3, <1>12, <2>2, <5>1
      <4>2. CASE x \in i .. i - 1 + uncles
        <5>1. new[x].depth \in Nat /\ new[x].depth >= d
          BY <1>14, <4>2
        <5> QED
          BY <1>10, <2>2, <3>1, <5>1
      <4>3. CASE x \in i + uncles .. arrayEnd - 1
        <5> DEFINE y == x - uncles + 1
        <5>1. new[x].depth = t[y].depth - 1 /\ y \in 1 .. n /\ new[x].depth >= d
          BY <1>15, <4>3
        <5>2. new[x].depth \in Int
          <6> HIDE DEF y
          <6> QED
            BY <1>2, <5>1
        <5> HIDE DEF y
        <5> QED
          BY <1>10, <2>2, <3>1, <5>1, <5>2, SMTT(20)
      <4>4. CASE x \in arrayEnd .. k - 1
        <5>1. x + 1 \in q + 1 .. m - 1
          <6>1. q \in Int /\ x \in Int /\ m \in Int /\ q <= x /\ x + 1 <= k /\ k = m - 1
            BY <1>10, <1>12, <2>1, <2>4, <4>4
          <6> QED
            BY <6>1
        <5>2. x \in arrayEnd .. n - 1
          BY <1>10, <2>1, <4>4
        <5> QED
          BY <1>3, <1>12, <2>2, <5>1, <5>2
      <4> QED
        BY <1>10, <1>12, <2>1, <4>1, <4>2, <4>3, <4>4
    <3>5. q \in 0 .. k - 1 /\ q # i
      BY <1>10, <1>12, <2>1, <3>2
    <3>6. IsParent(new, k, q)
      BY <1>12, <2>2, <3>3, <3>4, <3>5 DEF IsParent
    <3>7. Origin(i, end, arrayEnd, q) = left
      BY <3>3, <3>5 DEF Origin
    <3> QED
      BY <1>13, <3>5, <3>6, <3>7
  <2> QED
    BY <1>10, <1>12, <2>1, <2>3, <2>4
<1> QED
  BY <1>10, <1>16, <1>17, <1>18, <1>19

=============================================================================
