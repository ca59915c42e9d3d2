------------------------- MODULE TagEditsTheorems -------------------------
(***************************************************************************)
(* The edits of the tree are the edits of a dictionary, for every tree:    *)
(* what the arithmetic on positions and depths does to the parents.        *)
(***************************************************************************)
EXTENDS TagEditsDictionary, TagTreeTheorems

(***************************************************************************)
(* The dictionary of a tree.                                               *)
(***************************************************************************)

(* The name of the tag at position q, or NoParent at position 0.           *)
NameAt(t, q) == IF q = 0 THEN NoParent ELSE t[q].name

(* In a tree with one tag of each name, a tag is found where it is.        *)
LEMMA FoundWhereItIs ==
    ASSUME NEW t \in Tree, Unique(t), NEW i \in 1 .. Len(t)
    PROVE  get_tag(t, t[i].name) = i
<1> DEFINE g == get_tag(t, t[i].name)
<1>1. /\ Len(t) \in Nat /\ DOMAIN t = 1 .. Len(t)
      /\ t[i].name \in Names(t)
  BY TreeElements DEF Tree, Names
<1>2. g \in 1 .. Len(t) /\ t[g].name = t[i].name
  BY <1>1, GetTagFinds
<1> HIDE DEF g
<1>3. g = i
  BY <1>1, <1>2 DEF Unique
<1> QED
  BY <1>3 DEF g

(* The maps of a tree, in terms of positions.                              *)
LEMMA MapsAt ==
    ASSUME NEW t \in Tree, Unique(t), NEW i \in 1 .. Len(t)
    PROVE  /\ t[i].name \in Names(t)
           /\ ParentMap(t)[t[i].name] = NameAt(t, ParentOf(t, i))
           /\ AssignableMap(t)[t[i].name] = t[i].assignable
<1>1. t[i].name \in Names(t)
  BY TreeElements DEF Tree, Names
<1>2. get_tag(t, t[i].name) = i
  BY FoundWhereItIs
<1>3. ParentMap(t)[t[i].name] = ParentName(t, t[i].name)
  BY <1>1 DEF ParentMap
<1>4. AssignableMap(t)[t[i].name] = t[i].assignable
  BY <1>1, <1>2 DEF AssignableMap
<1> QED
  BY <1>1, <1>2, <1>3, <1>4 DEF ParentName, NameAt

(* The maps of a tree are about its names.                                 *)
LEMMA MapDomains ==
    ASSUME NEW t \in Tree
    PROVE  /\ DOMAIN ParentMap(t) = Names(t)
           /\ DOMAIN AssignableMap(t) = Names(t)
           /\ Names(t) = {t[i].name : i \in 1 .. Len(t)}
BY TreeElements DEF ParentMap, AssignableMap, Names, Tree

(* How the dictionary of new differs from the one of t is told position by *)
(* position: the tag at position k of new has the parent and the flag that *)
(* the maps p and a give for its name.                                     *)
LEMMA MapsAre ==
    ASSUME NEW t \in Tree, Unique(t), NEW p, NEW a, NEW D,
           p = [n \in D |-> p[n]], a = [n \in D |-> a[n]],
           Names(t) = D,
           \A k \in 1 .. Len(t) :
               /\ p[t[k].name] = NameAt(t, ParentOf(t, k))
               /\ a[t[k].name] = t[k].assignable
    PROVE  ParentMap(t) = p /\ AssignableMap(t) = a
<1>1. \A n \in D : ParentMap(t)[n] = p[n] /\ AssignableMap(t)[n] = a[n]
  <2> SUFFICES ASSUME NEW n \in D
               PROVE  ParentMap(t)[n] = p[n] /\ AssignableMap(t)[n] = a[n]
    OBVIOUS
  <2>1. PICK k \in 1 .. Len(t) : n = t[k].name
    BY MapDomains
  <2> QED
    BY <2>1, MapsAt
<1>2. /\ ParentMap(t) = [n \in D |-> ParentMap(t)[n]]
      /\ AssignableMap(t) = [n \in D |-> AssignableMap(t)[n]]
  BY DEF ParentMap, AssignableMap
<1> QED
  BY <1>1, <1>2

-----------------------------------------------------------------------------

-----------------------------------------------------------------------------
(***************************************************************************)
(* The commands on the dictionary.                                         *)
(***************************************************************************)

(* manage-tag -a and -A.                                                   *)
LEMMA AddTagMaps ==
    ASSUME NEW t \in Tree, Unique(t), NEW tag \in Name, NEW a \in BOOLEAN, get_tag(t, tag) = 0
    PROVE  LET new == add_tag(t, tag, a)
           IN  /\ ParentMap(new) = Dictionary!With(ParentMap(t), tag, NoParent)
               /\ AssignableMap(new) = Dictionary!With(AssignableMap(t), tag, a)
<1> DEFINE new == add_tag(t, tag, a)
           p   == Dictionary!With(ParentMap(t), tag, NoParent)
           f   == Dictionary!With(AssignableMap(t), tag, a)
           D   == Names(t) \cup {tag}
<1>1. /\ new \in Tree /\ Len(new) = Len(t) + 1 /\ Unique(new)
      /\ \A k \in 1 .. Len(t) : new[k] = t[k]
      /\ new[Len(t) + 1].name = tag /\ new[Len(t) + 1].assignable = a
  <2>1. new_tag(tag, a, 0).name = tag /\ new_tag(tag, a, 0).assignable = a
    BY DEF new_tag
  <2> QED
    BY <2>1, AddTagResult, AddTagUnique
<1>2. /\ \A k \in 1 .. Len(t) : ParentOf(new, k) = ParentOf(t, k)
      /\ ParentOf(new, Len(t) + 1) = 0
  BY AddTagParents
<1>3. Len(t) \in Nat /\ tag \notin Names(t)
  BY TreeElements, GetTagFinds
<1>4. /\ p = [n \in D |-> p[n]] /\ p[tag] = NoParent
      /\ \A n \in Names(t) : p[n] = ParentMap(t)[n]
  BY <1>3, MapDomains DEF Dictionary!With
<1>5. /\ f = [n \in D |-> f[n]] /\ f[tag] = a
      /\ \A n \in Names(t) : f[n] = AssignableMap(t)[n]
  BY <1>3, MapDomains DEF Dictionary!With
<1> HIDE DEF new, p, f
<1>6. Names(new) = D
  <2>1. /\ Names(t) = {t[k].name : k \in 1 .. Len(t)}
        /\ Names(new) = {new[k].name : k \in 1 .. Len(t) + 1}
    BY <1>1, MapDomains
  <2>2. 1 .. Len(t) + 1 = 1 .. Len(t) \cup {Len(t) + 1}
    BY <1>3
  <2> QED
    BY <1>1, <2>1, <2>2
<1>7. ASSUME NEW k \in 1 .. Len(new)
      PROVE  p[new[k].name] = NameAt(new, ParentOf(new, k)) /\ f[new[k].name] = new[k].assignable
  <2>1. CASE k \in 1 .. Len(t)
    <3> DEFINE q == ParentOf(t, k)
    <3>1. new[k] = t[k] /\ ParentOf(new, k) = q
      BY <1>1, <1>2, <2>1
    <3>2. /\ t[k].name \in Names(t) /\ ParentMap(t)[t[k].name] = NameAt(t, q)
          /\ AssignableMap(t)[t[k].name] = t[k].assignable
      BY <2>1, MapsAt
    <3>3. IsParent(t, k, q)
      BY <2>1, ParentOfIsParent
    <3> HIDE DEF q
    <3>4. NameAt(new, q) = NameAt(t, q)
      <4>1. q # 0 => q \in 1 .. Len(t)
        BY <1>3, <2>1, <3>3 DEF IsParent
      <4> QED
        BY <1>1, <4>1 DEF NameAt
    <3> QED
      BY <1>4, <1>5, <3>1, <3>2, <3>4
  <2>2. CASE k = Len(t) + 1
    BY <1>1, <1>2, <1>4, <1>5, <2>2 DEF NameAt
  <2> QED
    BY <1>1, <1>3, <2>1, <2>2
<1>8. ParentMap(new) = p /\ AssignableMap(new) = f
  <2> HIDE DEF D
  <2> QED
    BY <1>1, <1>4, <1>5, <1>6, <1>7, MapsAre
<1> QED
  BY <1>8 DEF new, p, f

(* manage-tag -p and -P.                                                   *)
LEMMA AddToParentMaps ==
    ASSUME NEW t \in Tree, Unique(t), NEW i \in 1 .. Len(t),
           NEW tag \in Name, NEW a \in BOOLEAN, get_tag(t, tag) = 0
    PROVE  LET new == add_to_parent(t, i, tag, a)
           IN  /\ ParentMap(new) = Dictionary!With(ParentMap(t), tag, t[i].name)
               /\ AssignableMap(new) = Dictionary!With(AssignableMap(t), tag, a)
<1> DEFINE new == add_to_parent(t, i, tag, a)
           end == EndOfArray(t, i, t[i].depth + 1)
           p   == Dictionary!With(ParentMap(t), tag, t[i].name)
           f   == Dictionary!With(AssignableMap(t), tag, a)
           D   == Names(t) \cup {tag}
<1>1. /\ new \in Tree /\ Len(new) = Len(t) + 1 /\ Unique(new)
      /\ end \in i .. Len(t)
      /\ \A k \in 1 .. Len(t) + 1 :
             new[k] = IF k <= end THEN t[k]
                      ELSE IF k = end + 1 THEN new_tag(tag, a, t[i].depth + 1)
                      ELSE t[k - 1]
  BY AddToParentResult, AddToParentUnique
<1>2. /\ ParentOf(new, end + 1) = i
      /\ \A k \in 1 .. end : ParentOf(new, k) = ParentOf(t, k)
      /\ \A k \in end + 1 .. Len(t) :
             ParentOf(new, k + 1) =
                 IF ParentOf(t, k) <= end THEN ParentOf(t, k) ELSE ParentOf(t, k) + 1
  BY AddToParentParents
<1>3. Len(t) \in Nat /\ tag \notin Names(t)
  BY TreeElements, GetTagFinds
<1>4. /\ p = [n \in D |-> p[n]] /\ p[tag] = t[i].name
      /\ \A n \in Names(t) : p[n] = ParentMap(t)[n]
  BY <1>3, MapDomains DEF Dictionary!With
<1>5. /\ f = [n \in D |-> f[n]] /\ f[tag] = a
      /\ \A n \in Names(t) : f[n] = AssignableMap(t)[n]
  BY <1>3, MapDomains DEF Dictionary!With
<1> HIDE DEF new, end, p, f
<1>6. \A k \in 1 .. end : k \in 1 .. Len(t) /\ k \in 1 .. Len(new) /\ new[k] = t[k]
  BY <1>1, <1>3
<1>7. new[end + 1].name = tag /\ new[end + 1].assignable = a /\ end + 1 \in 1 .. Len(new)
  BY <1>1, <1>3 DEF new_tag
<1>8. \A k \in end + 1 .. Len(t) :
          k \in 1 .. Len(t) /\ k + 1 \in 1 .. Len(new) /\ new[k + 1] = t[k]
  <2> SUFFICES ASSUME NEW k \in end + 1 .. Len(t)
               PROVE  k \in 1 .. Len(t) /\ k + 1 \in 1 .. Len(new) /\ new[k + 1] = t[k]
    OBVIOUS
  <2>1. /\ k + 1 \in 1 .. Len(t) + 1 /\ ~ (k + 1 <= end) /\ k + 1 # end + 1
        /\ (k + 1) - 1 = k /\ k \in 1 .. Len(t)
    BY <1>1, <1>3
  <2> QED
    BY <1>1, <2>1
<1>9. \A k \in 1 .. Len(new) :
          k \in 1 .. end \/ k = end + 1 \/ (k - 1 \in end + 1 .. Len(t) /\ (k - 1) + 1 = k)
  BY <1>1, <1>3
<1>10. \A k \in 1 .. Len(t) : k \in 1 .. end \/ k \in end + 1 .. Len(t)
  BY <1>1, <1>3
<1>11. Names(new) = D
  <2>1. /\ Names(t) = {t[k].name : k \in 1 .. Len(t)}
        /\ Names(new) = {new[k].name : k \in 1 .. Len(new)}
    BY <1>1, MapDomains
  <2>2. ASSUME NEW k \in 1 .. Len(new)
        PROVE  new[k].name \in D
    <3>1. CASE k \in 1 .. end
      BY <1>6, <2>1, <3>1
    <3>2. CASE k = end + 1
      BY <1>7, <3>2
    <3>3. CASE k - 1 \in end + 1 .. Len(t) /\ (k - 1) + 1 = k
      BY <1>8, <2>1, <3>3
    <3> QED
      BY <1>9, <3>1, <3>2, <3>3
  <2>3. ASSUME NEW k \in 1 .. Len(t)
        PROVE  t[k].name \in Names(new)
    BY <1>6, <1>8, <1>10, <2>1
  <2>4. tag \in Names(new)
    BY <1>7, <2>1
  <2> QED
    BY <2>1, <2>2, <2>3, <2>4
<1>12. ASSUME NEW k \in 1 .. Len(t)
       PROVE  /\ p[t[k].name] = NameAt(t, ParentOf(t, k)) /\ f[t[k].name] = t[k].assignable
              /\ ParentOf(t, k) \in 0 .. k - 1
  BY <1>4, <1>5, MapsAt, ParentOfIsParent DEF IsParent
<1>13. ASSUME NEW k \in 1 .. Len(new)
       PROVE  p[new[k].name] = NameAt(new, ParentOf(new, k)) /\ f[new[k].name] = new[k].assignable
  <2>1. CASE k \in 1 .. end
    <3> DEFINE q == ParentOf(t, k)
    <3>1. new[k] = t[k] /\ ParentOf(new, k) = q /\ k \in 1 .. Len(t)
      BY <1>2, <1>6, <2>1
    <3>2. q \in 0 .. k - 1 /\ p[t[k].name] = NameAt(t, q) /\ f[t[k].name] = t[k].assignable
      BY <1>12, <3>1
    <3> HIDE DEF q
    <3>3. q # 0 => q \in 1 .. end
      BY <1>1, <1>3, <2>1, <3>2
    <3> QED
      BY <1>6, <3>1, <3>2, <3>3 DEF NameAt
  <2>2. CASE k = end + 1
    <3>1. new[i] = t[i] /\ i # 0
      BY <1>1, <1>3
    <3> QED
      BY <1>2, <1>4, <1>5, <1>7, <2>2, <3>1 DEF NameAt
  <2>3. CASE k - 1 \in end + 1 .. Len(t) /\ (k - 1) + 1 = k
    <3> DEFINE j == k - 1
               q == ParentOf(t, j)
    <3>1. /\ new[k] = t[j] /\ j \in 1 .. Len(t)
          /\ ParentOf(new, k) = IF q <= end THEN q ELSE q + 1
      BY <1>2, <1>8, <2>3
    <3>2. q \in 0 .. j - 1 /\ p[t[j].name] = NameAt(t, q) /\ f[t[j].name] = t[j].assignable
      BY <1>12, <3>1
    <3> HIDE DEF q, j
    <3>3. CASE q <= end
      <4>1. q # 0 => q \in 1 .. end
        BY <1>1, <1>3, <3>2, <3>3
      <4> QED
        BY <1>6, <3>1, <3>2, <3>3, <4>1 DEF NameAt
    <3>4. CASE ~ (q <= end)
      <4>1. q \in end + 1 .. Len(t) /\ q # 0 /\ q + 1 # 0
        BY <1>1, <1>3, <3>1, <3>2, <3>4
      <4> QED
        BY <1>8, <3>1, <3>2, <3>4, <4>1 DEF NameAt
    <3> QED
      BY <3>3, <3>4
  <2> QED
    BY <1>9, <2>1, <2>2, <2>3
<1>14. ParentMap(new) = p /\ AssignableMap(new) = f
  <2> HIDE DEF D
  <2> QED
    BY <1>1, <1>4, <1>5, <1>11, <1>13, MapsAre
<1> QED
  BY <1>14 DEF new, p, f

(* manage-tag -r.                                                          *)
LEMMA RemoveTagMaps ==
    ASSUME NoParent \notin Name,
           NEW t \in Tree, Unique(t), WellNested(t), NEW i \in 1 .. Len(t)
    PROVE  LET new == remove_tag(t, i)
               P   == ParentMap(t)
               A   == AssignableMap(t)
               D   == Names(t) \ {t[i].name}
           IN  /\ ParentMap(new) =
                      [n \in D |-> IF P[n] = t[i].name THEN P[t[i].name] ELSE P[n]]
               /\ AssignableMap(new) = [n \in D |-> A[n]]
<1> DEFINE new      == remove_tag(t, i)
           end      == EndOfArray(t, i, t[i].depth + 1)
           arrayEnd == EndOfArray(t, i, t[i].depth)
           o(k)     == Origin(i, end, arrayEnd, k)
           P        == ParentMap(t)
           A        == AssignableMap(t)
           D        == Names(t) \ {t[i].name}
           p        == [n \in D |-> IF P[n] = t[i].name THEN P[t[i].name] ELSE P[n]]
           f        == [n \in D |-> A[n]]
<1>1. /\ new \in Tree /\ Len(new) = Len(t) - 1 /\ Unique(new)
      /\ end \in i .. Len(t) /\ arrayEnd \in end .. Len(t)
      /\ \A k \in 1 .. Len(t) - 1 :
             new[k] = IF o(k) \in i + 1 .. end THEN [t[o(k)] EXCEPT !.depth = @ - 1]
                      ELSE t[o(k)]
  BY RemoveTagResult, RemoveTagUnique
<1>2. /\ \A k \in 1 .. Len(t) - 1 : o(ParentOf(new, k)) = ParentLeft(t, i, o(k))
      /\ o(0) = 0
  BY RemoveTagParents, TreeElements DEF Origin
<1>3. /\ Len(t) \in Nat /\ DOMAIN t = 1 .. Len(t)
      /\ \A m \in 1 .. Len(t) : t[m] \in Tag /\ t[m].name \in Name
  BY TreeElements DEF Tree
<1>4. Names(t) = {t[k].name : k \in 1 .. Len(t)}
  BY MapDomains
<1>5. /\ p = [n \in D |-> p[n]] /\ f = [n \in D |-> f[n]]
      /\ \A n \in D : p[n] = IF P[n] = t[i].name THEN P[t[i].name] ELSE P[n]
      /\ \A n \in D : f[n] = A[n]
  OBVIOUS
<1> HIDE DEF new, end, arrayEnd, p, f
<1>6. \A k \in 1 .. Len(t) - 1 : o(k) \in 1 .. Len(t) /\ o(k) # i
  BY <1>1, <1>3, OriginInTree, OriginCovers
<1>7. \A m \in 1 .. Len(t) : m # i => \E k \in 1 .. Len(t) - 1 : o(k) = m
  BY <1>1, <1>3, OriginCovers
<1> HIDE DEF o
<1>8. ASSUME NEW k \in 1 .. Len(t) - 1
      PROVE  new[k].name = t[o(k)].name /\ new[k].assignable = t[o(k)].assignable
  <2>1. o(k) \in 1 .. Len(t) /\ t[o(k)] \in Tag
    BY <1>3, <1>6
  <2> QED
    BY <1>1, <2>1 DEF Tag
<1>9. \A m \in 1 .. Len(t) : m # i => t[m].name # t[i].name
  BY <1>3 DEF Unique
<1>10. Names(new) = D
  <2>1. Names(new) = {new[k].name : k \in 1 .. Len(t) - 1}
    BY <1>1, MapDomains
  <2>2. ASSUME NEW k \in 1 .. Len(t) - 1
        PROVE  new[k].name \in D
    BY <1>4, <1>6, <1>8, <1>9
  <2>3. ASSUME NEW n \in D
        PROVE  n \in Names(new)
    <3>1. PICK m \in 1 .. Len(t) : n = t[m].name
      BY <1>4
    <3>2. PICK k \in 1 .. Len(t) - 1 : o(k) = m
      BY <1>7, <3>1
    <3> QED
      BY <1>8, <2>1, <3>1, <3>2
  <2> QED
    BY <2>1, <2>2, <2>3
<1>11. ASSUME NEW k \in 1 .. Len(t) - 1
       PROVE  p[new[k].name] = NameAt(new, ParentOf(new, k)) /\ f[new[k].name] = new[k].assignable
  <2> DEFINE m == o(k)
             q == ParentOf(t, m)
             n == t[m].name
  <2>1. /\ m \in 1 .. Len(t) /\ m # i /\ n \in D
        /\ new[k].name = n /\ new[k].assignable = t[m].assignable
    BY <1>4, <1>6, <1>8, <1>9
  <2>2. P[n] = NameAt(t, q) /\ A[n] = t[m].assignable
    BY <2>1, MapsAt
  <2>3. P[t[i].name] = NameAt(t, ParentOf(t, i))
    BY MapsAt
  <2>4. NameAt(t, q) = t[i].name <=> q = i
    <3>1. q \in 0 .. m - 1
      BY <2>1, ParentOfIsParent DEF IsParent
    <3> HIDE DEF q
    <3>2. q # 0 => q \in 1 .. Len(t)
      BY <1>3, <2>1, <3>1
    <3>3. i # 0 /\ t[i].name \in Name
      BY <1>3
    <3> QED
      BY <1>9, <3>2, <3>3 DEF NameAt
  <2>5. NameAt(new, ParentOf(new, k)) = IF q = i THEN NameAt(t, ParentOf(t, i)) ELSE NameAt(t, q)
    <3> DEFINE u == ParentOf(new, k)
    <3>1. u \in 0 .. k - 1
      BY <1>1, ParentOfIsParent DEF IsParent
    <3>2. o(u) = IF q = i THEN ParentOf(t, i) ELSE q
      BY <1>2 DEF ParentLeft
    <3> HIDE DEF u
    <3>3. CASE u = 0
      BY <1>2, <3>2, <3>3 DEF NameAt, u
    <3>4. CASE u # 0
      <4>1. u \in 1 .. Len(t) - 1
        BY <1>3, <3>1, <3>4
      <4>2. new[u].name = t[o(u)].name /\ o(u) # 0
        BY <1>6, <1>8, <4>1
      <4> QED
        BY <3>2, <3>4, <4>2 DEF NameAt, u
    <3> QED
      BY <3>3, <3>4
  <2>6. f[n] = A[n] /\ p[n] = IF P[n] = t[i].name THEN P[t[i].name] ELSE P[n]
    BY <1>5, <2>1
  <2> HIDE DEF m, q, n, P, A, D
  <2> QED
    BY <2>1, <2>2, <2>3, <2>4, <2>5, <2>6
<1>12. ParentMap(new) = p /\ AssignableMap(new) = f
  <2>1. \A k \in 1 .. Len(new) :
            /\ p[new[k].name] = NameAt(new, ParentOf(new, k))
            /\ f[new[k].name] = new[k].assignable
    BY <1>1, <1>11
  <2> HIDE DEF D, P, A
  <2> QED
    BY <1>1, <1>5, <1>10, <2>1, MapsAre
<1> QED
  BY <1>12 DEF new, p, f

-----------------------------------------------------------------------------
(***************************************************************************)
(* The refinement.  The tree stays a forest with one tag of each name:     *)
(* with two of one name a map would not know which to take the parent of.  *)
(***************************************************************************)

EditsInv == tree \in Tree /\ Unique(tree) /\ WellNested(tree)

(* The tree of a new configuration file is sound and stands for an empty   *)
(* dictionary.                                                             *)
LEMMA SkeletonMaps ==
    /\ Skeleton \in Tree /\ Unique(Skeleton) /\ WellNested(Skeleton)
    /\ ParentMap(Skeleton) = << >> /\ AssignableMap(Skeleton) = << >>
<1>1. Names(Skeleton) = {}
  BY DEF Names, Skeleton
<1> QED
  BY <1>1 DEF Skeleton, Tree, Unique, WellNested, ParentMap, AssignableMap

(* A tag that is looked for and found has a position, and a name in the    *)
(* domain of the maps.                                                     *)
LEMMA HasMeans ==
    ASSUME EditsInv, NEW tag \in Name
    PROVE  /\ Has(tag) => /\ get_tag(tree, tag) \in 1 .. Len(tree)
                          /\ tree[get_tag(tree, tag)].name = tag
                          /\ tag \in Names(tree)
           /\ ~ Has(tag) => get_tag(tree, tag) = 0 /\ tag \notin Names(tree)
<1>1. tree \in Tree /\ Len(tree) \in Nat
  BY TreeElements DEF EditsInv
<1> QED
  BY <1>1, GetTagFinds, MapDomains DEF Has

(* Every edit keeps the tree a forest with one tag of each name.           *)
LEMMA EditsStep == EditsInv /\ [Next]_editVars => EditsInv'
<1> SUFFICES ASSUME EditsInv, [Next]_editVars
             PROVE  EditsInv'
  OBVIOUS
<1>1. ASSUME NEW tag \in Name, NEW a \in BOOLEAN, Add(tag, a)
      PROVE  EditsInv'
  BY <1>1, HasMeans, AddTagResult, AddTagUnique, AddTagNested DEF Add, EditsInv
<1>2. ASSUME NEW parent \in Name, NEW tag \in Name, NEW a \in BOOLEAN, AddChild(parent, tag, a)
      PROVE  EditsInv'
  <2> DEFINE i == get_tag(tree, parent)
  <2>1. /\ i \in 1 .. Len(tree) /\ get_tag(tree, tag) = 0
        /\ tree' = add_to_parent(tree, i, tag, a)
    BY <1>2, HasMeans DEF AddChild
  <2> HIDE DEF i
  <2> QED
    BY <2>1, AddToParentResult, AddToParentUnique, AddToParentNested DEF EditsInv
<1>3. ASSUME NEW tag \in Name, Delete(tag)
      PROVE  EditsInv'
  <2> DEFINE i == get_tag(tree, tag)
  <2>1. i \in 1 .. Len(tree) /\ tree' = remove_tag(tree, i)
    BY <1>3, HasMeans DEF Delete
  <2> HIDE DEF i
  <2> QED
    BY <2>1, RemoveTagResult, RemoveTagUnique, RemoveTagNested DEF EditsInv
<1>4. CASE Lose
  BY <1>4, SkeletonMaps DEF Lose, EditsInv
<1>5. CASE UNCHANGED editVars
  BY <1>5 DEF editVars, EditsInv
<1> QED
  BY <1>1, <1>2, <1>3, <1>4, <1>5 DEF Next

(* In every state of every sequence of edits the tree is a forest, with    *)
(* one tag of each name.                                                   *)
LEMMA EditsInvHolds == Spec => []EditsInv
<1>1. Init => EditsInv
  BY SkeletonMaps DEF Init, EditsInv
<1> QED
  BY <1>1, EditsStep, PTL DEF Spec

(* A new configuration file is an empty dictionary.                        *)
LEMMA DictionaryInit == Init => Dictionary!Init
BY SkeletonMaps DEF Init, Dictionary!Init

(* -a puts the tag into the dictionary, without a parent.                  *)
LEMMA AddIsAdd ==
    ASSUME EditsInv, NEW tag \in Name, NEW a \in BOOLEAN, Add(tag, a)
    PROVE  Dictionary!Add(tag, NoParent, a)
<1>1. /\ ~ lost /\ lost' = lost /\ tree' = add_tag(tree, tag, a)
      /\ get_tag(tree, tag) = 0 /\ tag \notin Names(tree) /\ tree \in Tree /\ Unique(tree)
  BY HasMeans DEF Add, EditsInv
<1>2. /\ ParentMap(tree') = Dictionary!With(ParentMap(tree), tag, NoParent)
      /\ AssignableMap(tree') = Dictionary!With(AssignableMap(tree), tag, a)
  BY <1>1, AddTagMaps
<1>3. DOMAIN ParentMap(tree) = Names(tree)
  BY <1>1, MapDomains
<1> QED
  BY <1>1, <1>2, <1>3 DEF Dictionary!Add, Dictionary!Tags

(* -p puts the tag into the dictionary, with its parent.                   *)
LEMMA AddChildIsAdd ==
    ASSUME EditsInv, NEW parent \in Name, NEW tag \in Name, NEW a \in BOOLEAN,
           AddChild(parent, tag, a)
    PROVE  Dictionary!Add(tag, parent, a)
<1> DEFINE i == get_tag(tree, parent)
<1>1. /\ ~ lost /\ lost' = lost /\ tree' = add_to_parent(tree, i, tag, a)
      /\ i \in 1 .. Len(tree) /\ tree[i].name = parent /\ parent \in Names(tree)
      /\ get_tag(tree, tag) = 0 /\ tag \notin Names(tree) /\ tree \in Tree /\ Unique(tree)
  BY HasMeans DEF AddChild, EditsInv
<1> HIDE DEF i
<1>2. /\ ParentMap(tree') = Dictionary!With(ParentMap(tree), tag, parent)
      /\ AssignableMap(tree') = Dictionary!With(AssignableMap(tree), tag, a)
  BY <1>1, AddToParentMaps
<1>3. DOMAIN ParentMap(tree) = Names(tree)
  BY <1>1, MapDomains
<1> QED
  BY <1>1, <1>2, <1>3 DEF Dictionary!Add, Dictionary!Tags

(* -r takes the tag out of the dictionary, and its children get its        *)
(* parent.                                                                 *)
LEMMA DeleteIsRemove ==
    ASSUME NoParent \notin Name, EditsInv, NEW tag \in Name, Delete(tag)
    PROVE  Dictionary!Remove(tag)
<1> DEFINE i == get_tag(tree, tag)
           P == ParentMap(tree)
           A == AssignableMap(tree)
           D == Names(tree) \ {tag}
<1>1. /\ ~ lost /\ lost' = lost /\ tree' = remove_tag(tree, i)
      /\ i \in 1 .. Len(tree) /\ tree[i].name = tag /\ tag \in Names(tree)
      /\ tree \in Tree /\ Unique(tree) /\ WellNested(tree)
  BY HasMeans DEF Delete, EditsInv
<1> HIDE DEF i
<1>2. /\ ParentMap(tree') = [n \in D |-> IF P[n] = tag THEN P[tag] ELSE P[n]]
      /\ AssignableMap(tree') = [n \in D |-> A[n]]
  <2>1. /\ ParentMap(remove_tag(tree, i)) =
               [n \in Names(tree) \ {tree[i].name} |->
                   IF P[n] = tree[i].name THEN P[tree[i].name] ELSE P[n]]
        /\ AssignableMap(remove_tag(tree, i)) =
               [n \in Names(tree) \ {tree[i].name} |-> A[n]]
    BY <1>1, RemoveTagMaps
  <2> HIDE DEF P, A
  <2> QED
    BY <1>1, <2>1
<1>3. DOMAIN P = Names(tree) /\ DOMAIN A = Names(tree)
  BY <1>1, MapDomains
<1> HIDE DEF P, A
<1>4. Dictionary!Restrict(A, D) = [n \in D |-> A[n]]
  BY <1>3 DEF Dictionary!Restrict
<1> QED
  BY <1>1, <1>2, <1>3, <1>4 DEF Dictionary!Remove, Dictionary!Tags, P, A

(* A lost file is a lost dictionary.                                       *)
LEMMA LoseIsLose == Lose => Dictionary!Lose
BY SkeletonMaps DEF Lose, Dictionary!Lose

(* Every edit of the tree is one of the dictionary.                        *)
LEMMA EditsRefine ==
    ASSUME NoParent \notin Name
    PROVE  EditsInv /\ [Next]_editVars => [Dictionary!Next]_Dictionary!dictionaryVars
<1> SUFFICES ASSUME EditsInv, [Next]_editVars
             PROVE  [Dictionary!Next]_Dictionary!dictionaryVars
  OBVIOUS
<1>1. ASSUME NEW tag \in Name, NEW a \in BOOLEAN, Add(tag, a)
      PROVE  Dictionary!Next
  BY <1>1, AddIsAdd DEF Dictionary!Next
<1>2. ASSUME NEW parent \in Name, NEW tag \in Name, NEW a \in BOOLEAN, AddChild(parent, tag, a)
      PROVE  Dictionary!Next
  BY <1>2, AddChildIsAdd DEF Dictionary!Next
<1>3. ASSUME NEW tag \in Name, Delete(tag)
      PROVE  Dictionary!Next
  BY <1>3, DeleteIsRemove DEF Dictionary!Next
<1>4. CASE Lose
  BY <1>4, LoseIsLose DEF Dictionary!Next
<1>5. CASE UNCHANGED editVars
  BY <1>5 DEF editVars, Dictionary!dictionaryVars
<1> QED
  BY <1>1, <1>2, <1>3, <1>4, <1>5 DEF Next

(* Whatever the shape and the depth of the tree, a command of manage-tag   *)
(* changes exactly the tags it should: the new tag gets its parent, the    *)
(* children of a removed tag get the parent it had, and no other tag       *)
(* changes its parent, appears or disappears.                              *)
THEOREM DictionaryRefined ==
    ASSUME NoParent \notin Name
    PROVE  Spec => ImplementsDictionary
<1>1. EditsInv /\ [Next]_editVars => [Dictionary!Next]_Dictionary!dictionaryVars
  BY EditsRefine
<1> QED
  BY <1>1, DictionaryInit, EditsInvHolds, PTL
     DEF Spec, ImplementsDictionary, Dictionary!Spec

=============================================================================
