------------------------- MODULE SearchPathTheorems -------------------------
(***************************************************************************)
(* The path of search-tag-file names the entry that is looked at, for all  *)
(* directories, names and lengths.                                         *)
(***************************************************************************)
EXTENDS SearchPath, SearchTagFileTheorems

-----------------------------------------------------------------------------
(***************************************************************************)
(* Buffers: memory that holds a string.                                    *)
(***************************************************************************)

Cell == Char \cup {Nul, Garbage}

Buffer == [str : Seq(Cell), str_length : Nat, str_capacity : Nat]

(* The buffer holds the string s, with or without a 0 behind it.           *)
Holds(b, s) ==
    /\ b \in Buffer
    /\ b.str_capacity = Len(b.str)
    /\ b.str_length = Len(s)
    /\ Len(s) < Len(b.str)
    /\ \A k \in 1 .. Len(s) : b.str[k] = s[k]

(* The 0 is where the string ends.                                         *)
Ended(b) == b.str[b.str_length + 1] = Nul

(* What C reads from a buffer that has a 0 where the string it holds ends. *)
LEMMA ReadsString ==
    ASSUME NEW b, NEW s \in Seq(Char), Holds(b, s), Ended(b)
    PROVE  CString(b.str) = s
<1> DEFINE m == b.str
           I == {i \in 1 .. Len(m) : m[i] = Nul}
           n == Len(s)
<1>1. /\ n \in Nat /\ Len(m) \in Nat /\ n + 1 \in 1 .. Len(m)
      /\ m \in Seq(Cell)
      /\ m[n + 1] = Nul
      /\ \A k \in 1 .. n : m[k] = s[k] /\ s[k] \in Char
  <2>1. n \in Nat /\ \A k \in 1 .. n : s[k] \in Char
    BY LenProperties, ElementOfSeq
  <2>2. m \in Seq(Cell)
    BY DEF Holds, Buffer
  <2>3. Len(m) \in Nat
    BY <2>2, LenProperties
  <2> QED
    BY <2>1, <2>2, <2>3 DEF Holds, Ended
<1>2. I \subseteq Nat /\ n + 1 \in I
  BY <1>1
<1>3. \A i \in I : ~ (i \in 1 .. n)
  BY <1>1, NulAssumption
<1>4. Min(I) = n + 1
  <2>1. Min(I) \in I /\ \A i \in I : Min(I) <= i
    BY <1>2, MinIsLeast
  <2>2. Min(I) <= n + 1 /\ Min(I) \in 1 .. Len(m) /\ ~ (Min(I) \in 1 .. n)
    BY <2>1, <1>2, <1>3
  <2> HIDE DEF I
  <2> QED
    BY <2>2, <1>1
<1>5. CString(m) = IF (IF I # {} THEN Min(I) ELSE 0) = 0 THEN Append(m, Garbage)
                   ELSE SubSeq(m, 1, (IF I # {} THEN Min(I) ELSE 0) - 1)
  BY Zenon DEF CString, SelectInSeq
<1>6. CString(m) = SubSeq(m, 1, n)
  <2>1. n + 1 # 0 /\ n + 1 - 1 = n /\ I # {}
    BY <1>1, <1>2
  <2>2. (IF I # {} THEN Min(I) ELSE 0) = n + 1
    BY <1>4, <2>1
  <2>3. (IF I # {} THEN Min(I) ELSE 0) # 0
    BY <2>1, <2>2
  <2>4. (IF I # {} THEN Min(I) ELSE 0) - 1 = n
    BY <2>1, <2>2
  <2>5. CString(m) = SubSeq(m, 1, (IF I # {} THEN Min(I) ELSE 0) - 1)
    BY <1>5, <2>3
  <2> QED
    BY <2>4, <2>5
<1>7. SubSeq(m, 1, n) \in Seq(Char) /\ Len(SubSeq(m, 1, n)) = n
      /\ \A k \in 1 .. n : SubSeq(m, 1, n)[k] = s[k]
  <2>1. \A k \in 1 .. n : m[k] \in Char
    BY <1>1
  <2> HIDE DEF m, n
  <2>2. /\ SubSeq(m, 1, n) \in Seq(Char)
        /\ Len(SubSeq(m, 1, n)) = IF 1 <= n THEN n - 1 + 1 ELSE 0
        /\ \A i \in 1 .. n - 1 + 1 : SubSeq(m, 1, n)[i] = m[1 + i - 1]
    BY <1>1, <2>1, SubSeqProperties
  <2> QED
    BY <1>1, <2>2
<1>8. SubSeq(m, 1, n) = s
  <2> HIDE DEF m
  <2> QED
    BY <1>7, SeqEqual
<1> QED
  BY <1>6, <1>8

(* realloc keeps what was there, as far as it has room.                    *)
LEMMA ResizeResult ==
    ASSUME NEW m \in Seq(Cell), NEW n \in Nat
    PROVE  /\ Resize(m, n) \in Seq(Cell)
           /\ Len(Resize(m, n)) = n
           /\ \A k \in 1 .. n : k \in 1 .. Len(m) => Resize(m, n)[k] = m[k]
<1>1. DOMAIN m = 1 .. Len(m) /\ \A k \in 1 .. Len(m) : m[k] \in Cell
  BY LenProperties, ElementOfSeq
<1>2. Garbage \in Cell
  BY DEF Cell
<1> HIDE DEF Cell
<1>3. \A k \in 1 .. n : (IF k \in DOMAIN m THEN m[k] ELSE Garbage) \in Cell
  BY <1>1, <1>2
<1> QED
  BY <1>1, <1>3 DEF Resize

(* What is written lies behind the offset, and the rest stays.             *)
LEMMA WriteResult ==
    ASSUME NEW m \in Seq(Cell), NEW o \in Nat, NEW x \in Seq(Cell)
    PROVE  /\ Write(m, o, x) \in Seq(Cell)
           /\ Len(Write(m, o, x)) = Len(m)
           /\ \A k \in 1 .. Len(m) :
                  Write(m, o, x)[k] = IF k - o \in 1 .. Len(x) THEN x[k - o] ELSE m[k]
<1>1. /\ DOMAIN m = 1 .. Len(m) /\ Len(m) \in Nat /\ \A k \in 1 .. Len(m) : m[k] \in Cell
      /\ DOMAIN x = 1 .. Len(x) /\ \A k \in 1 .. Len(x) : x[k] \in Cell
  BY LenProperties, ElementOfSeq
<1> HIDE DEF Cell
<1>2. \A k \in 1 .. Len(m) : (IF k - o \in DOMAIN x THEN x[k - o] ELSE m[k]) \in Cell
  BY <1>1
<1> QED
  BY <1>1, <1>2 DEF Write

(* A string and the 0 behind it, written behind what is there.             *)
LEMMA WriteString ==
    ASSUME NEW m \in Seq(Cell), NEW s \in Seq(Char), NEW x \in Seq(Char),
           \A k \in 1 .. Len(s) : k \in 1 .. Len(m) /\ m[k] = s[k],
           Len(s) + Len(x) < Len(m)
    PROVE  LET w == Write(m, Len(s), Append(x, Nul))
           IN  /\ w \in Seq(Cell)
               /\ Len(w) = Len(m)
               /\ \A k \in 1 .. Len(s) + Len(x) : w[k] = (s \o x)[k]
               /\ w[Len(s) + Len(x) + 1] = Nul
<1> DEFINE w == Write(m, Len(s), Append(x, Nul))
           n == Len(s)
           l == Len(x)
<1>1. n \in Nat /\ l \in Nat /\ Len(m) \in Nat
  BY LenProperties
<1>2. x \in Seq(Cell) /\ Nul \in Cell
  BY SeqMonotonic DEF Cell
<1>3. /\ Append(x, Nul) \in Seq(Cell)
      /\ Len(Append(x, Nul)) = l + 1
      /\ \A k \in 1 .. l : Append(x, Nul)[k] = x[k]
      /\ Append(x, Nul)[l + 1] = Nul
  BY <1>2, AppendProperties
<1> DEFINE y == Append(x, Nul)
<1> HIDE DEF y
<1>4. /\ y \in Seq(Cell)
      /\ Len(y) = l + 1
      /\ \A k \in 1 .. l : y[k] = x[k]
      /\ y[l + 1] = Nul
  BY <1>3 DEF y
<1>5. /\ Write(m, n, y) \in Seq(Cell)
      /\ Len(Write(m, n, y)) = Len(m)
      /\ \A k \in 1 .. Len(m) : Write(m, n, y)[k] = IF k - n \in 1 .. l + 1 THEN y[k - n] ELSE m[k]
  BY <1>1, <1>4, WriteResult
<1>6. w = Write(m, n, y)
  BY DEF y
<1> HIDE DEF w
<1>7. \A k \in 1 .. n + l : (s \o x)[k] = IF k <= n THEN s[k] ELSE x[k - n]
  BY ConcatProperties
<1>8. ASSUME NEW k \in 1 .. n + l
      PROVE  w[k] = (s \o x)[k]
  <2>1. k \in 1 .. Len(m)
    BY <1>1
  <2>2. CASE k <= n
    <3>1. ~ (k - n \in 1 .. l + 1) /\ k \in 1 .. n
      BY <1>1, <2>2
    <3> QED
      BY <1>5, <1>6, <1>7, <2>1, <2>2, <3>1
  <2>3. CASE ~ (k <= n)
    <3>1. k - n \in 1 .. l + 1 /\ k - n \in 1 .. l
      BY <1>1, <2>3
    <3> QED
      BY <1>4, <1>5, <1>6, <1>7, <2>1, <2>3, <3>1
  <2> QED
    BY <2>2, <2>3
<1>9. w[n + l + 1] = Nul
  <2>1. n + l + 1 \in 1 .. Len(m) /\ n + l + 1 - n = l + 1 /\ l + 1 \in 1 .. l + 1
    BY <1>1
  <2> QED
    BY <1>4, <1>5, <1>6, <2>1, SMTT(20)
<1> QED
  BY <1>5, <1>6, <1>8, <1>9 DEF w

(* An append keeps the string within the memory and puts the other behind  *)
(* it.                                                                     *)
LEMMA AppendHolds ==
    ASSUME NEW b, NEW s \in Seq(Char), NEW x \in Seq(Char), Holds(b, s)
    PROVE  /\ Holds(append_str_to_buffer(b, x), s \o x)
           /\ Ended(append_str_to_buffer(b, x))
<1> DEFINE need == b.str_length + Len(x) + 1
           c    == IF need >= b.str_capacity THEN extends_buffer(b, 2 * need) ELSE b
           d    == append_str_to_buffer(b, x)
<1>1. /\ Len(s) \in Nat /\ Len(x) \in Nat /\ need \in Nat
      /\ b.str \in Seq(Cell) /\ Len(b.str) \in Nat
      /\ b \in Buffer
      /\ b.str_length = Len(s) /\ b.str_capacity = Len(b.str) /\ Len(s) < Len(b.str)
      /\ \A k \in 1 .. Len(s) : b.str[k] = s[k]
  BY LenProperties DEF Holds, Buffer
<1>2. /\ c \in Buffer
      /\ c.str_length = Len(s) /\ c.str_capacity = Len(c.str) /\ Len(s) + Len(x) < Len(c.str)
      /\ \A k \in 1 .. Len(s) : c.str[k] = s[k]
  <2>1. CASE need >= b.str_capacity
    <3> DEFINE r == Resize(b.str, 2 * need)
    <3>1. 2 * need \in Nat /\ Len(s) + Len(x) < 2 * need
      BY <1>1
    <3>2. /\ r \in Seq(Cell)
          /\ Len(r) = 2 * need
          /\ \A k \in 1 .. 2 * need : k \in 1 .. Len(b.str) => r[k] = b.str[k]
      <4> HIDE DEF need
      <4> QED
        BY <1>1, <3>1, ResizeResult
    <3>3. c = [b EXCEPT !.str = r, !.str_capacity = 2 * need]
      BY <2>1 DEF extends_buffer
    <3>4. \A k \in 1 .. Len(s) : k \in 1 .. 2 * need /\ k \in 1 .. Len(b.str)
      BY <1>1
    <3> HIDE DEF r, c, need
    <3>5. c \in Buffer /\ c.str = r /\ c.str_capacity = 2 * need /\ c.str_length = b.str_length
      BY <1>1, <3>1, <3>2, <3>3 DEF Buffer
    <3> QED
      BY <1>1, <3>1, <3>2, <3>4, <3>5
  <2>2. CASE ~ (need >= b.str_capacity)
    BY <1>1, <2>2
  <2> QED
    BY <2>1, <2>2
<1>3. d = [c EXCEPT !.str = Write(@, b.str_length, Append(x, Nul)), !.str_length = @ + Len(x)]
  BY DEF append_str_to_buffer
<1> HIDE DEF c, d
<1>4. c.str \in Seq(Cell) /\ Len(c.str) \in Nat /\ \A k \in 1 .. Len(s) : k \in 1 .. Len(c.str)
  <2>1. c.str \in Seq(Cell)
    BY <1>2 DEF Buffer
  <2> QED
    BY <1>1, <1>2, <2>1, LenProperties
<1> DEFINE w == Write(c.str, Len(s), Append(x, Nul))
<1>5. /\ w \in Seq(Cell)
      /\ Len(w) = Len(c.str)
      /\ \A k \in 1 .. Len(s) + Len(x) : w[k] = (s \o x)[k]
      /\ w[Len(s) + Len(x) + 1] = Nul
  <2> DEFINE m == c.str
  <2>1. m \in Seq(Cell) /\ (\A k \in 1 .. Len(s) : k \in 1 .. Len(m) /\ m[k] = s[k])
        /\ Len(s) + Len(x) < Len(m)
    BY <1>2, <1>4
  <2> HIDE DEF m
  <2> QED
    BY <2>1, WriteString DEF m
<1> HIDE DEF w
<1>6. d \in Buffer /\ d.str = w /\ d.str_length = Len(s) + Len(x) /\ d.str_capacity = c.str_capacity
  <2>1. d = [c EXCEPT !.str = w, !.str_length = @ + Len(x)]
    BY <1>1, <1>2, <1>3 DEF w
  <2>2. c.str_length + Len(x) = Len(s) + Len(x) /\ Len(s) + Len(x) \in Nat
    BY <1>1, <1>2
  <2> HIDE DEF Cell
  <2> QED
    BY <1>2, <1>5, <2>1, <2>2 DEF Buffer
<1>7. s \o x \in Seq(Char) /\ Len(s \o x) = Len(s) + Len(x)
  BY ConcatProperties
<1> QED
  BY <1>2, <1>5, <1>6, <1>7 DEF Holds, Ended, d

-----------------------------------------------------------------------------
(***************************************************************************)
(* Paths: FlattenSeq puts the names of the directories together.           *)
(***************************************************************************)

(* The recursion of FlattenSeq for the first n elements of s.              *)
Flattens(s, n, flat) ==
    flat = [i \in 1 .. n |-> IF i = 1 THEN s[i] ELSE flat[i - 1] \o s[i]]

(* The recursion has a solution: else there would be a least number of     *)
(* elements without one.                                                   *)
LEMMA FlattenExists ==
    ASSUME NEW s, NEW n \in Nat
    PROVE  \E flat : Flattens(s, n, flat)
<1> DEFINE Without == {m \in Nat : ~ \E flat : Flattens(s, m, flat)}
           least == Min(Without)
<1>1. SUFFICES ASSUME Without # {} PROVE FALSE
  OBVIOUS
<1>2. least \in Without /\ \A m \in Without : least <= m
  <2>1. Without \subseteq Nat
    OBVIOUS
  <2> QED
    BY <1>1, <2>1, MinIsLeast
<1>3. least \in Nat /\ ~ \E flat : Flattens(s, least, flat)
  BY <1>2
<1>4. least # 0 => least - 1 \in Nat /\ ~ (least - 1 \in Without)
  <2> HIDE DEF least, Without
  <2>1. \A m \in Nat : m # 0 => m - 1 \in Nat /\ ~ (m <= m - 1)
    OBVIOUS
  <2> QED
    BY <1>2, <1>3, <2>1
<1> HIDE DEF least
<1>5. CASE least = 0
  <2> DEFINE flat == [i \in 1 .. 0 |-> s[i]]
  <2>1. Flattens(s, 0, flat)
    BY DEF Flattens
  <2> QED
    BY <1>3, <1>5, <2>1
<1>6. CASE least # 0
  <2>1. PICK flat : Flattens(s, least - 1, flat)
    BY <1>4, <1>6
  <2> DEFINE next == [i \in 1 .. least |->
                          IF i = least /\ i # 1 THEN flat[i - 1] \o s[i]
                          ELSE IF i = 1 THEN s[i] ELSE flat[i]]
  <2>2. \A i \in 1 .. least - 1 : flat[i] = IF i = 1 THEN s[i] ELSE flat[i - 1] \o s[i]
    BY <2>1 DEF Flattens
  <2>3. \A i \in 1 .. least - 1 : next[i] = flat[i]
    BY <1>3, <2>2
  <2>4. \A i \in 1 .. least : next[i] = IF i = 1 THEN s[i] ELSE next[i - 1] \o s[i]
    <3>1. ASSUME NEW i \in 1 .. least, i # 1
          PROVE  next[i] = next[i - 1] \o s[i]
      <4>1. i - 1 \in 1 .. least - 1
        BY <1>3, <3>1
      <4>2. next[i] = flat[i - 1] \o s[i]
        <5>1. i = least \/ i \in 1 .. least - 1
          BY <1>3
        <5> QED
          BY <2>2, <3>1, <5>1
      <4> QED
        BY <2>3, <4>1, <4>2
    <3> QED
      BY <3>1, <1>3
  <2>5. Flattens(s, least, next)
    <3> DEFINE goal == [i \in 1 .. least |-> IF i = 1 THEN s[i] ELSE next[i - 1] \o s[i]]
    <3>1. \A i \in 1 .. least : next[i] = goal[i]
      BY <2>4
    <3>2. DOMAIN next = 1 .. least /\ DOMAIN goal = 1 .. least
      OBVIOUS
    <3>3. next = goal
      BY <3>1, <3>2
    <3> QED
      BY <3>3 DEF Flattens
  <2> QED
    BY <1>3, <2>5
<1> QED
  BY <1>5, <1>6

(* There is only one, as far as two go.                                    *)
LEMMA FlattenUnique ==
    ASSUME NEW s, NEW n \in Nat, NEW m \in Nat, NEW f, NEW g,
           Flattens(s, n, f), Flattens(s, m, g)
    PROVE  \A i \in 1 .. n : i <= m => f[i] = g[i]
<1> DEFINE Bad == {i \in 1 .. n : i <= m /\ f[i] # g[i]}
           least == Min(Bad)
<1>1. SUFFICES ASSUME Bad # {} PROVE FALSE
  OBVIOUS
<1>2. least \in Bad /\ \A i \in Bad : least <= i
  <2>1. Bad \subseteq Nat
    OBVIOUS
  <2> QED
    BY <1>1, <2>1, MinIsLeast
<1> HIDE DEF least
<1>3. /\ \A i \in 1 .. n : f[i] = IF i = 1 THEN s[i] ELSE f[i - 1] \o s[i]
      /\ \A i \in 1 .. m : g[i] = IF i = 1 THEN s[i] ELSE g[i - 1] \o s[i]
  BY DEF Flattens
<1>4. least \in 1 .. n /\ least \in 1 .. m /\ f[least] # g[least]
  BY <1>2
<1>5. least # 1
  BY <1>3, <1>4
<1>6. least - 1 \in 1 .. n /\ least - 1 <= m /\ ~ (least <= least - 1)
  BY <1>4, <1>5
<1>7. f[least - 1] = g[least - 1]
  BY <1>2, <1>6
<1> QED
  BY <1>3, <1>4, <1>5, <1>7

(* FlattenSeq appends the last element to the others put together.         *)
LEMMA FlattenSteps ==
    ASSUME NEW S, NEW s \in Seq(S), NEW t \in Seq(S), NEW n \in Nat,
           Len(s) = n + 1, Len(t) = n, \A i \in 1 .. n : s[i] = t[i]
    PROVE  FlattenSeq(s) = IF n = 0 THEN s[1] ELSE FlattenSeq(t) \o s[n + 1]
<1> DEFINE f == CHOOSE flat : Flattens(s, n + 1, flat)
           g == CHOOSE flat : Flattens(t, n, flat)
<1>1. Flattens(s, n + 1, f) /\ Flattens(t, n, g)
  <2>1. n + 1 \in Nat
    OBVIOUS
  <2>2. (\E flat : Flattens(s, n + 1, flat)) /\ \E flat : Flattens(t, n, flat)
    BY <2>1, FlattenExists
  <2> QED
    BY <2>2
<1>2. FlattenSeq(s) = f[n + 1]
  BY DEF FlattenSeq, Flattens
<1>3. n # 0 => FlattenSeq(t) = g[n]
  BY DEF FlattenSeq, Flattens
<1> HIDE DEF f, g
<1>4. \A i \in 1 .. n + 1 : f[i] = IF i = 1 THEN s[i] ELSE f[i - 1] \o s[i]
  BY <1>1 DEF Flattens
<1>5. CASE n = 0
  BY <1>2, <1>4, <1>5
<1>6. CASE n # 0
  <2>1. f[n + 1] = f[n] \o s[n + 1]
    <3>1. n + 1 \in 1 .. n + 1 /\ n + 1 # 1 /\ n + 1 - 1 = n
      BY <1>6
    <3>2. \A i \in 1 .. n + 1 : i # 1 /\ i - 1 = n => f[i] = f[n] \o s[i]
      BY <1>4, Zenon
    <3>3. ASSUME NEW k \in 1 .. n + 1, k = n + 1 PROVE f[k] = f[n] \o s[k]
      <4>1. k # 1 /\ k - 1 = n
        BY <3>1, <3>3
      <4> QED
        BY <3>2, <4>1, Zenon
    <3> QED
      BY <3>1, <3>3, Zenon
  <2> DEFINE h == [i \in 1 .. n |-> f[i]]
  <2>2. Flattens(t, n, h)
    <3> DEFINE goal == [i \in 1 .. n |-> IF i = 1 THEN t[i] ELSE h[i - 1] \o t[i]]
    <3>1. ASSUME NEW i \in 1 .. n PROVE h[i] = goal[i]
      <4>1. h[i] = IF i = 1 THEN t[i] ELSE f[i - 1] \o t[i]
        BY <1>4
      <4>2. i # 1 => i - 1 \in 1 .. n
        OBVIOUS
      <4> QED
        BY <4>1, <4>2
    <3>2. h = goal
      BY <3>1
    <3> QED
      BY <3>2 DEF Flattens
  <2>3. f[n] = g[n]
    <3>1. n \in 1 .. n /\ n <= n
      BY <1>6
    <3>2. h[n] = f[n]
      BY <3>1
    <3> HIDE DEF h
    <3>3. \A i \in 1 .. n : i <= n => h[i] = g[i]
      BY <1>1, <2>2, FlattenUnique
    <3> QED
      BY <3>1, <3>2, <3>3
  <2>4. FlattenSeq(s) = FlattenSeq(t) \o s[n + 1]
    BY <1>2, <1>3, <1>6, <2>1, <2>3, Zenon
  <2> QED
    BY <1>6, <2>4, Zenon
<1> QED
  BY <1>5, <1>6

(* The characters of a name, and the slash behind it.                      *)
LEMMA NameChars ==
    ASSUME NEW e \in Entry
    PROVE  /\ NameOf(e) \in Seq(Char)
           /\ Len(NameOf(e)) = NameLen[e] /\ NameLen[e] \in Nat \ {0}
           /\ <<"/">> \in Seq(Char) /\ Len(<<"/">>) = 1
<1>1. NameLen[e] \in Nat \ {0}
  BY NameLenAssumption
<1>2. "/" \in Char /\ \A k \in Nat : <<e, k>> \in Char
  BY DEF Char
<1> HIDE DEF Char
<1> QED
  BY <1>1, <1>2 DEF NameOf

(* The names of the directories fs is in, a slash behind each.             *)
Trail(fs) == FlattenSeq([i \in DOMAIN fs |-> NameOf(fs[i].dir) \o <<"/">>])

(* The directories of the frames.                                          *)
LEMMA FrameDirs ==
    ASSUME NEW fs \in Seq(Frame)
    PROVE  /\ Len(fs) \in Nat
           /\ DOMAIN fs = 1 .. Len(fs)
           /\ \A i \in 1 .. Len(fs) :
                  /\ fs[i].dir \in Entry
                  /\ NameOf(fs[i].dir) \in Seq(Char)
                  /\ NameOf(fs[i].dir) \o <<"/">> \in Seq(Char)
<1>1. Len(fs) \in Nat /\ DOMAIN fs = 1 .. Len(fs)
  BY LenProperties
<1>2. ASSUME NEW i \in 1 .. Len(fs)
      PROVE  /\ fs[i].dir \in Entry
             /\ NameOf(fs[i].dir) \in Seq(Char)
             /\ NameOf(fs[i].dir) \o <<"/">> \in Seq(Char)
  <2>1. fs[i].dir \in Entry
    <3>1. fs[i] \in Frame
      BY ElementOfSeq
    <3> QED
      BY <3>1 DEF Frame, Entry
  <2>2. NameOf(fs[i].dir) \in Seq(Char) /\ <<"/">> \in Seq(Char)
    BY <2>1, NameChars
  <2> QED
    BY <2>1, <2>2, ConcatProperties
<1> QED
  BY <1>1, <1>2

(* A directory more is its name more.  The rest of the frames does not     *)
(* matter.                                                                 *)
LEMMA TrailSteps ==
    ASSUME NEW fs \in Seq(Frame), NEW gs \in Seq(Frame), NEW n \in Nat,
           Len(fs) = n + 1, Len(gs) = n, \A i \in 1 .. n : fs[i].dir = gs[i].dir
    PROVE  Trail(fs) = IF n = 0 THEN NameOf(fs[1].dir) \o <<"/">>
                       ELSE Trail(gs) \o (NameOf(fs[n + 1].dir) \o <<"/">>)
<1> DEFINE Part(d) == NameOf(d) \o <<"/">>
           s == [i \in DOMAIN fs |-> Part(fs[i].dir)]
           t == [i \in DOMAIN gs |-> Part(gs[i].dir)]
<1>1. /\ DOMAIN fs = 1 .. n + 1 /\ DOMAIN gs = 1 .. n
      /\ \A i \in 1 .. n + 1 : Part(fs[i].dir) \in Seq(Char)
      /\ \A i \in 1 .. n : Part(gs[i].dir) \in Seq(Char)
  BY FrameDirs
<1>2. Trail(fs) = FlattenSeq(s) /\ Trail(gs) = FlattenSeq(t)
  BY DEF Trail
<1> HIDE DEF Part
<1>3. s \in Seq(Seq(Char)) /\ t \in Seq(Seq(Char)) /\ Len(s) = n + 1 /\ Len(t) = n
  <2> DEFINE Text == Seq(Char)
  <2>1. s = [i \in 1 .. n + 1 |-> Part(fs[i].dir)] /\ t = [i \in 1 .. n |-> Part(gs[i].dir)]
    BY <1>1, Zenon
  <2>2. /\ \A i \in 1 .. n + 1 : Part(fs[i].dir) \in Text
        /\ \A i \in 1 .. n : Part(gs[i].dir) \in Text
    BY <1>1, Zenon
  <2> HIDE DEF Text, s, t
  <2>3. s \in Seq(Text) /\ Len(s) = n + 1
    BY <2>1, <2>2
  <2>4. t \in Seq(Text) /\ Len(t) = n
    BY <2>1, <2>2
  <2> QED
    BY <2>3, <2>4 DEF Text
<1>4. \A i \in 1 .. n + 1 : s[i] = Part(fs[i].dir)
  BY <1>1
<1>5. \A i \in 1 .. n : s[i] = t[i]
  BY <1>1, <1>4
<1>6. 1 \in 1 .. n + 1 /\ n + 1 \in 1 .. n + 1
  OBVIOUS
<1> HIDE DEF s, t
<1>7. FlattenSeq(s) = IF n = 0 THEN s[1] ELSE FlattenSeq(t) \o s[n + 1]
  BY <1>3, <1>5, FlattenSteps
<1>8. s[1] = Part(fs[1].dir) /\ s[n + 1] = Part(fs[n + 1].dir)
  BY <1>4, <1>6
<1>9. Trail(fs) = IF n = 0 THEN Part(fs[1].dir) ELSE Trail(gs) \o Part(fs[n + 1].dir)
  BY <1>2, <1>7, <1>8, Zenon
<1> QED
  BY <1>9, Zenon DEF Part

(* Frames of the same directories have the same trail.                     *)
LEMMA TrailSame ==
    ASSUME NEW fs \in Seq(Frame), NEW gs \in Seq(Frame),
           Len(fs) = Len(gs), \A i \in 1 .. Len(fs) : fs[i].dir = gs[i].dir
    PROVE  Trail(fs) = Trail(gs)
<1> DEFINE Part(d) == NameOf(d) \o <<"/">>
<1>1. DOMAIN fs = 1 .. Len(fs) /\ DOMAIN gs = 1 .. Len(fs)
  BY FrameDirs
<1> HIDE DEF Part
<1>2. [i \in DOMAIN fs |-> Part(fs[i].dir)] = [i \in DOMAIN gs |-> Part(gs[i].dir)]
  BY <1>1
<1> QED
  BY <1>2, Zenon DEF Trail, Part

(* A trail ends with a slash.                                              *)
LEMMA TrailForm ==
    ASSUME NEW fs \in Seq(Frame), fs # << >>
    PROVE  \E q \in Seq(Char) : Trail(fs) = q \o <<"/">>
<1> DEFINE Good(gs) == \E q \in Seq(Char) : Trail(gs) = q \o <<"/">>
           Bad   == {n \in Nat \ {0} : \E gs \in Seq(Frame) : Len(gs) = n /\ ~ Good(gs)}
           least == Min(Bad)
<1>1. SUFFICES ASSUME Bad # {} PROVE FALSE
  <2>1. Len(fs) \in Nat \ {0}
    BY EmptySeq
  <2>2. Len(fs) \notin Bad => Good(fs)
    BY <2>1
  <2> QED
    BY <2>2
<1>2. least \in Bad /\ \A n \in Bad : least <= n
  <2>1. Bad \subseteq Nat
    OBVIOUS
  <2> HIDE DEF Bad
  <2> QED
    BY <1>1, <2>1, MinIsLeast
<1> HIDE DEF least
<1>3. PICK gs \in Seq(Frame) : Len(gs) = least /\ ~ Good(gs)
  BY <1>2
<1> DEFINE n == least - 1
<1>4. n \in Nat /\ Len(gs) = n + 1 /\ ~ (least <= n) /\ gs # << >>
  BY <1>2, <1>3
<1> DEFINE hs == Front(gs)
           name == NameOf(gs[n + 1].dir)
<1>5. hs \in Seq(Frame) /\ Len(hs) = n /\ \A i \in 1 .. n : gs[i].dir = hs[i].dir
  <2>1. /\ Front(gs) \in Seq(Frame)
        /\ Len(Front(gs)) = Len(gs) - 1
        /\ \A j \in 1 .. Len(gs) - 1 : Front(gs)[j] = gs[j]
    BY <1>4, FrontFrames
  <2>2. Len(gs) - 1 = n
    BY <1>4
  <2> QED
    BY <2>1, <2>2
<1>6. name \in Seq(Char) /\ NameOf(gs[1].dir) \in Seq(Char) /\ <<"/">> \in Seq(Char)
  <2>1. 1 \in 1 .. Len(gs) /\ n + 1 \in 1 .. Len(gs)
    BY <1>4
  <2>2. gs[1].dir \in Entry
    BY <2>1, FrameDirs
  <2> QED
    BY <2>1, <2>2, FrameDirs, NameChars
<1> HIDE DEF n, hs
<1>7. Trail(gs) = IF n = 0 THEN NameOf(gs[1].dir) \o <<"/">> ELSE Trail(hs) \o (name \o <<"/">>)
  BY <1>4, <1>5, TrailSteps
<1> HIDE DEF name
<1>8. CASE n = 0
  BY <1>3, <1>6, <1>7, <1>8, Zenon
<1>9. CASE n # 0
  <2>1. Good(hs)
    <3>1. n \in Nat \ {0} /\ n \notin Bad
      BY <1>2, <1>4, <1>9
    <3> HIDE DEF Good
    <3> QED
      BY <1>5, <3>1
  <2>2. PICK q \in Seq(Char) : Trail(hs) = q \o <<"/">>
    BY <2>1
  <2>3. q \o <<"/">> \in Seq(Char) /\ (q \o <<"/">>) \o name \in Seq(Char)
    BY <1>6, ConcatProperties
  <2>4. (q \o <<"/">>) \o (name \o <<"/">>) = ((q \o <<"/">>) \o name) \o <<"/">>
    BY <1>6, <2>3, ConcatAssociative, SMTT(20)
  <2>5. Trail(gs) = ((q \o <<"/">>) \o name) \o <<"/">>
    BY <1>7, <1>9, <2>2, <2>4, Zenon
  <2> QED
    BY <1>3, <2>3, <2>5
<1> QED
  BY <1>8, <1>9

(* The path of the innermost directory of fs, and of its entry e.          *)
Before(fs) == CHOOSE q \in Seq(Char) : Trail(fs) = q \o <<"/">>

Here(fs, e) == (Before(fs) \o <<"/">>) \o NameOf(e)

(* The text of a trail without its last slash.                             *)
LEMMA BeforeProperties ==
    ASSUME NEW fs \in Seq(Frame), fs # << >>
    PROVE  /\ Before(fs) \in Seq(Char)
           /\ Trail(fs) = Before(fs) \o <<"/">>
<1>1. \E q \in Seq(Char) : Trail(fs) = q \o <<"/">>
  BY TrailForm
<1> QED
  BY <1>1, Zenon DEF Before

(* Two texts that are the same with a slash behind them are the same.      *)
LEMMA SlashBehind ==
    ASSUME NEW p \in Seq(Char), NEW q \in Seq(Char), p \o <<"/">> = q \o <<"/">>
    PROVE  p = q
<1>1. "/" \in Char
  BY DEF Char
<1>2. p \o <<"/">> = Append(p, "/") /\ q \o <<"/">> = Append(q, "/")
  BY <1>1, AppendIsConcat
<1>3. Append(p, "/") = Append(q, "/")
  BY <1>2, Zenon
<1> QED
  BY <1>1, <1>3, AppendInjective

(* The path of the innermost directory is that of an entry of the          *)
(* directory around it, or the name of the command line.                   *)
LEMMA BeforeSteps ==
    ASSUME NEW fs \in Seq(Frame), NEW gs \in Seq(Frame), NEW n \in Nat,
           Len(fs) = n + 1, Len(gs) = n, \A i \in 1 .. n : fs[i].dir = gs[i].dir
    PROVE  Before(fs) = IF n = 0 THEN NameOf(fs[1].dir) ELSE Here(gs, fs[n + 1].dir)
<1>1. fs # << >> /\ (n # 0 => gs # << >>)
  BY EmptySeq
<1>2. Before(fs) \in Seq(Char) /\ Trail(fs) = Before(fs) \o <<"/">>
  BY <1>1, BeforeProperties
<1> DEFINE name == NameOf(fs[n + 1].dir)
<1>3. name \in Seq(Char) /\ NameOf(fs[1].dir) \in Seq(Char) /\ <<"/">> \in Seq(Char)
  <2>1. 1 \in 1 .. Len(fs) /\ n + 1 \in 1 .. Len(fs)
    OBVIOUS
  <2>2. fs[1].dir \in Entry
    BY <2>1, FrameDirs
  <2> QED
    BY <2>1, <2>2, FrameDirs, NameChars
<1>4. Trail(fs) = IF n = 0 THEN NameOf(fs[1].dir) \o <<"/">> ELSE Trail(gs) \o (name \o <<"/">>)
  BY TrailSteps
<1> HIDE DEF name
<1>5. CASE n = 0
  <2>1. Before(fs) \o <<"/">> = NameOf(fs[1].dir) \o <<"/">>
    BY <1>2, <1>4, <1>5, Zenon
  <2>2. Before(fs) = NameOf(fs[1].dir)
    BY <1>2, <1>3, <2>1, SlashBehind
  <2> QED
    BY <1>5, <2>2, Zenon
<1>6. CASE n # 0
  <2> DEFINE q == Before(gs)
  <2>1. q \in Seq(Char) /\ Trail(gs) = q \o <<"/">>
    BY <1>1, <1>6, BeforeProperties
  <2> HIDE DEF q
  <2>2. q \o <<"/">> \in Seq(Char) /\ (q \o <<"/">>) \o name \in Seq(Char)
    BY <1>3, <2>1, ConcatProperties
  <2>3. (q \o <<"/">>) \o (name \o <<"/">>) = ((q \o <<"/">>) \o name) \o <<"/">>
    BY <1>3, <2>2, ConcatAssociative
  <2>4. Before(fs) \o <<"/">> = ((q \o <<"/">>) \o name) \o <<"/">>
    BY <1>2, <1>4, <1>6, <2>1, <2>3, Zenon
  <2>5. Before(fs) = (q \o <<"/">>) \o name
    BY <1>2, <2>2, <2>4, SlashBehind
  <2> QED
    BY <1>6, <2>5, Zenon DEF Here, name, q
<1> QED
  BY <1>5, <1>6

(* Only the directories of the frames matter.                              *)
LEMMA BeforeSame ==
    ASSUME NEW fs \in Seq(Frame), NEW gs \in Seq(Frame),
           Len(fs) = Len(gs), \A i \in 1 .. Len(fs) : fs[i].dir = gs[i].dir
    PROVE  Before(fs) = Before(gs)
<1>1. Trail(fs) = Trail(gs)
  BY TrailSame
<1> QED
  BY <1>1, Zenon DEF Before

(* FullPath is the path of the directory with the name behind it.          *)
LEMMA FullPathIsHere ==
    ASSUME frames \in Seq(Frame), frames # << >>, NEW e
    PROVE  FullPath(e) = Here(frames, e)
<1>1. Trail(frames) = Before(frames) \o <<"/">>
  BY BeforeProperties
<1>2. FullPath(e) = Trail(frames) \o NameOf(e)
  BY Zenon DEF FullPath, Trail
<1> QED
  BY <1>1, <1>2, Zenon DEF Here

-----------------------------------------------------------------------------
(***************************************************************************)
(* The path while the walk goes on.                                        *)
(***************************************************************************)

(* The name of an entry appended.                                          *)
LEMMA AppendPath ==
    ASSUME NEW b, NEW s \in Seq(Char), NEW e \in Entry, Holds(b, s)
    PROVE  /\ (s \o <<"/">>) \o NameOf(e) \in Seq(Char)
           /\ Holds(append_to_path(b, e), (s \o <<"/">>) \o NameOf(e))
           /\ Ended(append_to_path(b, e))
<1> DEFINE c == append_str_to_buffer(b, <<"/">>)
           t == s \o <<"/">>
           name == NameOf(e)
<1>1. name \in Seq(Char) /\ <<"/">> \in Seq(Char)
  BY NameChars
<1>2. t \in Seq(Char)
  BY <1>1, ConcatProperties
<1>3. Holds(c, t)
  BY <1>1, AppendHolds
<1>4. append_to_path(b, e) = append_str_to_buffer(c, name)
  BY Zenon DEF append_to_path
<1> HIDE DEF c, t, name
<1>5. t \o name \in Seq(Char)
  BY <1>1, <1>2, ConcatProperties
<1>6. Holds(append_str_to_buffer(c, name), t \o name) /\ Ended(append_str_to_buffer(c, name))
  BY <1>1, <1>2, <1>3, AppendHolds
<1> QED
  BY <1>4, <1>5, <1>6, Zenon DEF t, name

(* Cut takes it off again, and leaves the memory as it is.                 *)
LEMMA CutPath ==
    ASSUME NEW b, NEW s \in Seq(Char), NEW e \in Entry,
           Holds(b, (s \o <<"/">>) \o NameOf(e))
    PROVE  /\ Holds(Cut(b, e), s)
           /\ Cut(b, e).str = b.str
<1> DEFINE t == s \o <<"/">>
           u == t \o NameOf(e)
<1>1. /\ NameOf(e) \in Seq(Char) /\ Len(NameOf(e)) = NameLen[e] /\ NameLen[e] \in Nat
      /\ <<"/">> \in Seq(Char) /\ Len(<<"/">>) = 1
  BY NameChars
<1>2. Len(s) \in Nat
  BY LenProperties
<1>3. /\ t \in Seq(Char)
      /\ Len(t) = Len(s) + 1
      /\ \A k \in 1 .. Len(s) + 1 : t[k] = IF k <= Len(s) THEN s[k] ELSE <<"/">>[k - Len(s)]
  BY <1>1, ConcatProperties
<1> HIDE DEF t
<1>4. /\ Len(u) = Len(s) + 1 + NameLen[e]
      /\ \A k \in 1 .. Len(t) + NameLen[e] : k <= Len(t) => u[k] = t[k]
  <2> DEFINE name == NameOf(e)
  <2>1. name \in Seq(Char) /\ Len(name) = NameLen[e]
    BY <1>1
  <2> HIDE DEF name, u
  <2>2. t \in Seq(Char) /\ name \in Seq(Char)
    BY <1>3, <2>1
  <2>3. /\ Len(t \o name) = Len(t) + Len(name)
        /\ \A k \in 1 .. Len(t) + Len(name) :
               (t \o name)[k] = IF k <= Len(t) THEN t[k] ELSE name[k - Len(t)]
    BY <2>2, ConcatProperties
  <2>4. u = t \o name
    BY DEF u, name
  <2> QED
    BY <1>3, <2>1, <2>3, <2>4
<1> HIDE DEF u
<1>5. \A k \in 1 .. Len(s) : k \in 1 .. Len(u) /\ u[k] = s[k]
  <2>1. ASSUME NEW k \in 1 .. Len(s) PROVE k \in 1 .. Len(u) /\ u[k] = s[k]
    <3>1. k \in 1 .. Len(s) + 1 /\ k \in 1 .. Len(t) + NameLen[e] /\ k <= Len(s) /\ k <= Len(t)
          /\ k \in 1 .. Len(u)
      BY <1>1, <1>2, <1>3, <1>4
    <3> QED
      BY <1>3, <1>4, <3>1
  <2> QED
    BY <2>1
<1>6. Holds(b, u)
  BY DEF t, u
<1>7. /\ b \in Buffer /\ b.str_capacity = Len(b.str) /\ b.str_length = Len(u)
      /\ Len(u) < Len(b.str) /\ Len(b.str) \in Nat
      /\ \A k \in 1 .. Len(u) : b.str[k] = u[k]
  BY <1>6 DEF Holds, Buffer
<1>8. b.str_length - (NameLen[e] + 1) = Len(s) /\ Len(s) < Len(b.str)
  BY <1>1, <1>2, <1>4, <1>7
<1>9. Cut(b, e) = [b EXCEPT !.str_length = Len(s)]
  BY <1>7, <1>8 DEF Cut, Buffer
<1> DEFINE c == Cut(b, e)
<1>10. c \in Buffer /\ c.str = b.str /\ c.str_length = Len(s) /\ c.str_capacity = b.str_capacity
  BY <1>2, <1>7, <1>9 DEF Buffer
<1> HIDE DEF c
<1>11. \A k \in 1 .. Len(s) : c.str[k] = s[k]
  BY <1>5, <1>7, <1>10
<1>12. Holds(c, s)
  BY <1>7, <1>8, <1>10, <1>11 DEF Holds
<1> QED
  BY <1>10, <1>12 DEF c

(* The buffer display_files makes.                                         *)
LEMMA FirstPath == Holds(display_files, NameOf(Top))
<1> DEFINE l == NameLen[Top]
           len == (l + 2) * 2
           name == NameOf(Top)
           m == Memory(len)
<1>1. Top \in Entry
  BY SearchAssumption DEF Entry
<1>2. name \in Seq(Char) /\ Len(name) = l /\ l \in Nat
  BY <1>1, NameChars
<1>3. len \in Nat /\ l < len
  BY <1>2
<1> HIDE DEF len, name
<1>4. m \in Seq(Cell) /\ Len(m) = len
  <2>1. Garbage \in Cell
    BY DEF Cell
  <2> HIDE DEF Cell
  <2> QED
    BY <1>3, <2>1 DEF Memory
<1> HIDE DEF m
<1> DEFINE w == Write(m, 0, Append(name, Nul))
<1>5. w \in Seq(Cell) /\ Len(w) = len /\ \A k \in 1 .. l : w[k] = name[k]
  <2> DEFINE s == << >>
  <2>1. s \in Seq(Char) /\ Len(s) = 0
    OBVIOUS
  <2>2. s \o name = name
    BY <1>2, ConcatEmptySeq
  <2> HIDE DEF s
  <2>3. /\ \A k \in 1 .. Len(s) : k \in 1 .. Len(m) /\ m[k] = s[k]
        /\ Len(s) + Len(name) < Len(m)
    BY <1>2, <1>3, <1>4, <2>1
  <2>4. LET v == Write(m, Len(s), Append(name, Nul))
        IN  /\ v \in Seq(Cell)
            /\ Len(v) = Len(m)
            /\ \A k \in 1 .. Len(s) + Len(name) : v[k] = (s \o name)[k]
    BY <1>2, <1>4, <2>1, <2>3, WriteString
  <2>5. w = Write(m, Len(s), Append(name, Nul)) /\ Len(s) + Len(name) = l
    BY <1>2, <2>1
  <2> HIDE DEF w
  <2> QED
    BY <1>4, <2>2, <2>4, <2>5
<1> HIDE DEF w
<1>6. display_files = [str |-> w, str_length |-> l, str_capacity |-> len]
  BY DEF display_files, w, m, name, len
<1> QED
  BY <1>2, <1>3, <1>5, <1>6 DEF Holds, Buffer, name

(* What the buffer holds: before the walk the name of the command line,    *)
(* during it the path of the innermost directory, and while a file is      *)
(* looked at, the path of the file.                                        *)
TextInv ==
    /\ phase = "parsing" => frames = << >> /\ Holds(path, NameOf(Top))
    /\ phase = "walking" /\ frames # << >> => Holds(path, Before(frames))
    /\ phase = "listing" => Holds(path, Here(frames, file)) /\ Ended(path)

(* The step of PathNamesEntry.                                             *)
Named ==
    /\ \A e \in Entry : Begins(e) => CString(path'.str) = FullPath(e)
    /\ phase' = "listing" => CString(path'.str) = FullPath(file')

(* The path of an entry, appended and cut off.                             *)
LEMMA PathOfEntry ==
    ASSUME TypeOK, TextInv, phase = "walking", frames # << >>, NEW e \in Entry
    PROVE  /\ Holds(PathOf(e), Here(frames, e)) /\ Ended(PathOf(e))
           /\ Holds(Cut(PathOf(e), e), Before(frames))
           /\ CString(PathOf(e).str) = FullPath(e)
           /\ CString(Cut(PathOf(e), e).str) = FullPath(e)
<1>1. frames \in Seq(Frame)
  BY DEF TypeOK
<1>2. Before(frames) \in Seq(Char)
  BY <1>1, BeforeProperties
<1>3. Holds(path, Before(frames))
  BY DEF TextInv
<1> DEFINE s == Before(frames)
<1> HIDE DEF s
<1>4. /\ (s \o <<"/">>) \o NameOf(e) \in Seq(Char)
      /\ Holds(append_to_path(path, e), (s \o <<"/">>) \o NameOf(e))
      /\ Ended(append_to_path(path, e))
  BY <1>2, <1>3, AppendPath DEF s
<1> DEFINE t == (s \o <<"/">>) \o NameOf(e)
           b == append_to_path(path, e)
<1> HIDE DEF b
<1>5. Holds(Cut(b, e), s) /\ Cut(b, e).str = b.str
  BY <1>2, <1>4, CutPath DEF s, b
<1> HIDE DEF t
<1>6. CString(b.str) = t
  BY <1>4, ReadsString DEF t, b
<1>7. FullPath(e) = t /\ Here(frames, e) = t
  BY <1>1, FullPathIsHere, Zenon DEF Here, s, t
<1> QED
  BY <1>4, <1>5, <1>6, <1>7, Zenon DEF PathOf, s, t, b

(* The entry this step begins with decides what becomes of the path.       *)
LEMMA OneBegins ==
    ASSUME PNext, NEW e \in Entry, Begins(e), \A x \in Entry : Begins(x) => x = e
    PROVE  path' = IF phase' = "listing" \/ Len(frames') > Len(frames)
                   THEN PathOf(e) ELSE Cut(PathOf(e), e)
<1>1. (CHOOSE x \in Entry : Begins(x)) = e
  BY Zenon
<1>2. \E x \in Entry : Begins(x)
  BY Zenon
<1> QED
  BY <1>1, <1>2, Zenon DEF PNext

(* Without one, the path is cut or stays.                                  *)
LEMMA NoneBegins ==
    ASSUME PNext, \A x \in Entry : ~ Begins(x)
    PROVE  path' = IF phase = "listing" /\ phase' # "listing" THEN Cut(path, file)
                   ELSE IF Len(frames) > 1 /\ Len(frames') < Len(frames)
                        THEN Cut(path, Current.dir)
                        ELSE path
BY Zenon DEF PNext

(* Going on behind an entry.                                               *)
LEMMA AfterEntry ==
    ASSUME TypeOK, TextInv, PNext, phase = "walking", frames # << >>,
           NEW e \in Entry, e \in Current.left, NEW b \in BOOLEAN, After(e, b),
           phase' \notin {"listing", "parsing"}
    PROVE  TextInv' /\ Named
<1> DEFINE n == Len(frames)
<1>1. /\ frames \in Seq(Frame)
      /\ frames' \in Seq(Frame)
      /\ Len(frames') = n
      /\ \A j \in 1 .. n - 1 : frames'[j] = frames[j]
      /\ frames'[n] = [frames[n] EXCEPT !.left = @ \ {e}, !.success = @ /\ b]
  BY AfterResult DEF TypeOK
<1>2. n \in Nat \ {0} /\ frames[n] \in Frame /\ Current = frames[n]
  BY <1>1, FrontFrames DEF Current
<1>3. Last(frames').left = Current.left \ {e} /\ frames'[n].dir = frames[n].dir
  BY <1>1, <1>2 DEF Last, Frame
<1>4. Begins(e) /\ \A x \in Entry : Begins(x) => x = e
  BY <1>1, <1>2, <1>3 DEF Begins
<1>5. path' = Cut(PathOf(e), e)
  <2>1. ~ (Len(frames') > Len(frames))
    BY <1>1, <1>2
  <2> QED
    BY <1>4, <2>1, OneBegins
<1>6. Before(frames') = Before(frames)
  <2>1. \A i \in 1 .. n : frames[i].dir = frames'[i].dir
    <3>1. \A i \in 1 .. n : i = n \/ i \in 1 .. n - 1
      BY <1>2
    <3> QED
      BY <1>1, <1>3, <3>1
  <2> QED
    BY <1>1, <2>1, BeforeSame
<1>7. Holds(path', Before(frames')) /\ CString(path'.str) = FullPath(e)
  BY <1>5, <1>6, PathOfEntry
<1>8. TextInv'
  BY <1>7 DEF TextInv
<1>9. Named
  BY <1>4, <1>7 DEF Named
<1> QED
  BY <1>8, <1>9

(* The end of the listing of a file's keys.                                *)
LEMMA AfterListing ==
    ASSUME TypeOK, PathInv, TextInv, PNext, phase = "listing",
           NEW b \in BOOLEAN, After(file, b), phase' \notin {"listing", "parsing"}
    PROVE  TextInv' /\ Named
<1> DEFINE n == Len(frames)
<1>1. frames \in Seq(Frame) /\ frames # << >> /\ file \in Entry
  BY DEF TypeOK, PathInv, Entry
<1>2. /\ frames' \in Seq(Frame)
      /\ Len(frames') = n
      /\ \A j \in 1 .. n - 1 : frames'[j] = frames[j]
      /\ frames'[n] = [frames[n] EXCEPT !.left = @ \ {file}, !.success = @ /\ b]
  BY <1>1, AfterResult
<1>3. n \in Nat \ {0} /\ frames[n] \in Frame
  BY <1>1, FrontFrames
<1>4. \A x \in Entry : ~ Begins(x)
  BY DEF Begins
<1>5. path' = Cut(path, file)
  BY <1>4, NoneBegins
<1>6. Before(frames') = Before(frames)
  <2>1. frames'[n].dir = frames[n].dir
    BY <1>2, <1>3 DEF Frame
  <2>2. \A i \in 1 .. n : i = n \/ i \in 1 .. n - 1
    BY <1>3
  <2>3. \A i \in 1 .. n : frames[i].dir = frames'[i].dir
    BY <1>2, <2>1, <2>2
  <2> QED
    BY <1>1, <1>2, <2>3, BeforeSame
<1>7. Holds(path', Before(frames'))
  <2>1. Before(frames) \in Seq(Char)
    BY <1>1, BeforeProperties
  <2>2. Holds(path, (Before(frames) \o <<"/">>) \o NameOf(file))
    BY Zenon DEF TextInv, Here
  <2> QED
    BY <1>1, <1>5, <1>6, <2>1, <2>2, CutPath
<1>8. TextInv'
  BY <1>7 DEF TextInv
<1>9. Named
  BY <1>4 DEF Named
<1> QED
  BY <1>8, <1>9

(* Steps that have nothing to do with the walk leave the path alone.       *)
LEMMA PathStays ==
    ASSUME TypeOK, PathInv, TextInv, PNext, UNCHANGED <<phase, frames, file>>
    PROVE  TextInv' /\ Named
<1>1. \A x \in Entry : ~ Begins(x)
  <2>1. Len(frames) \in Nat
    BY LenProperties DEF TypeOK
  <2> QED
    BY <2>1 DEF Begins, Current
<1>2. path' = path
  <2>1. Len(frames) \in Nat
    BY LenProperties DEF TypeOK
  <2> QED
    BY <1>1, <2>1, NoneBegins
<1>3. TextInv'
  BY <1>2 DEF TextInv
<1>4. ASSUME phase' = "listing"
      PROVE  CString(path'.str) = FullPath(file')
  <2>1. /\ frames \in Seq(Frame) /\ frames # << >> /\ file \in Entry
        /\ Holds(path, Here(frames, file)) /\ Ended(path)
    BY <1>4 DEF TypeOK, PathInv, TextInv, Entry
  <2>2. Here(frames, file) \in Seq(Char)
    <3>1. Before(frames) \in Seq(Char) /\ NameOf(file) \in Seq(Char) /\ <<"/">> \in Seq(Char)
      BY <2>1, BeforeProperties, NameChars
    <3>2. Before(frames) \o <<"/">> \in Seq(Char)
      BY <3>1, ConcatProperties
    <3> QED
      BY <3>1, <3>2, ConcatProperties DEF Here
  <2>3. CString(path.str) = Here(frames, file)
    BY <2>1, <2>2, ReadsString
  <2>4. Here(frames, file) = FullPath(file)
    BY <2>1, FullPathIsHere
  <2> QED
    BY <1>2, <2>3, <2>4
<1> QED
  BY <1>1, <1>3, <1>4 DEF Named

(* Every step keeps the text of the path and shows the system the right    *)
(* one.                                                                    *)
LEMMA TextStep ==
    ASSUME TypeOK, PathInv, TextInv, PNext
    PROVE  TextInv' /\ Named
<1> USE DEF command, buffer
<1>1. frames \in Seq(Frame) /\ Len(frames) \in Nat
  BY LenProperties DEF TypeOK
<1>2. CASE Parse
  <2>1. phase = "parsing" /\ frames = << >> /\ Len(frames) = 0 /\ Holds(path, NameOf(Top))
    BY <1>2 DEF Parse, TextInv
  <2>2. \A x \in Entry : ~ Begins(x)
    BY <2>1 DEF Begins
  <2>3. path' = path
    BY <2>1, <2>2, NoneBegins
  <2>4. CASE phase' = "EXIT_FAILURE"
    BY <2>2, <2>4 DEF TextInv, Named
  <2>5. CASE phase' = "walking" /\ frames' = <<Opened(Top, 0)>>
    <3>1. Opened(Top, 0) \in Frame /\ Opened(Top, 0).dir = Top
      BY OpenedFrame, SearchAssumption DEF Opened
    <3>2. /\ frames' \in Seq(Frame) /\ Len(frames') = 0 + 1 /\ frames'[1].dir = Top
          /\ \A i \in 1 .. 0 : frames'[i].dir = frames[i].dir
      BY <2>5, <3>1
    <3>3. Before(frames') = IF 0 = 0 THEN NameOf(frames'[1].dir)
                            ELSE Here(frames, frames'[0 + 1].dir)
      BY <1>1, <2>1, <3>2, BeforeSteps
    <3>4. Holds(path', Before(frames'))
      BY <2>1, <2>3, <3>2, <3>3
    <3> QED
      BY <2>2, <2>5, <3>4 DEF TextInv, Named
  <2> QED
    BY <1>2, <2>4, <2>5 DEF Parse
<1>3. CASE Refuse
  <2>1. phase = "parsing" /\ phase' \in {"refused", "crashed"}
    BY <1>3 DEF Refuse
  <2> QED
    BY <2>1 DEF TextInv, Named, Begins
<1>4. ASSUME NEW f \in File, MeasureNothing(f) \/ MeasureFails(f)
      PROVE  TextInv' /\ Named
  <2>1. /\ phase = "walking" /\ frames # << >> /\ f \in Current.left /\ f \in Entry
        /\ \E b \in BOOLEAN : After(f, b)
        /\ phase' \notin {"listing", "parsing"}
    BY <1>4 DEF MeasureNothing, MeasureFails, Next_file, Judge, Entry
  <2> QED
    BY <2>1, AfterEntry
<1>5. ASSUME NEW f \in File, MeasureKeys(f)
      PROVE  TextInv' /\ Named
  <2>1. /\ phase = "walking" /\ frames # << >> /\ f \in Current.left /\ f \in Entry
        /\ phase' = "listing" /\ file' = f /\ frames' = frames
    BY <1>5 DEF MeasureKeys, Next_file, Entry
  <2>2. Begins(f) /\ \A x \in Entry : Begins(x) => x = f
    BY <1>1, <2>1 DEF Begins
  <2>3. path' = PathOf(f)
    BY <2>1, <2>2, OneBegins
  <2>4. /\ Holds(path', Here(frames', file')) /\ Ended(path')
        /\ CString(path'.str) = FullPath(f)
    BY <2>1, <2>3, PathOfEntry
  <2> QED
    BY <2>1, <2>2, <2>4 DEF TextInv, Named
<1>6. CASE ListKeys \/ ListFails
  <2>1. /\ phase = "listing" /\ (\E b \in BOOLEAN : After(file, b))
        /\ phase' \notin {"listing", "parsing"}
    BY <1>6 DEF ListKeys, ListFails, Judge
  <2> QED
    BY <2>1, AfterListing
<1>7. ASSUME NEW d \in Dir, EnterDir(d)
      PROVE  TextInv' /\ Named
  <2>1. /\ phase = "walking" /\ frames # << >> /\ d \in Current.left /\ d \in Entry
        /\ phase' = "walking"
    BY <1>7 DEF EnterDir, Entry
  <2>2. CASE After(d, FALSE)
    BY <2>1, <2>2, AfterEntry
  <2>3. CASE frames' = Append(frames, Opened(d, LinksTo(d))) /\ LinksTo(d) <= MaxLinks
    <3> DEFINE n == Len(frames)
    <3>1. n \in Nat \ {0} /\ Current \in Frame
      BY <1>1, <2>1, FrontFrames DEF Current
    <3>2. Opened(d, LinksTo(d)) \in Frame /\ Opened(d, LinksTo(d)).dir = d
      <4>1. Current.links \in 0 .. MaxLinks
        BY <3>1 DEF Frame
      <4>2. LinksTo(d) \in 0 .. MaxLinks
        BY <2>3, <4>1, SearchAssumption DEF LinksTo
      <4> QED
        BY <4>2, OpenedFrame DEF Opened
    <3> DEFINE fr == Opened(d, LinksTo(d))
    <3> HIDE DEF fr
    <3>3. /\ frames' \in Seq(Frame)
          /\ Len(frames') = n + 1
          /\ \A j \in 1 .. n : frames'[j] = frames[j]
          /\ frames'[n + 1].dir = d /\ Last(frames').dir = d
      <4>1. fr \in Frame /\ fr.dir = d /\ frames' = Append(frames, fr)
        BY <2>3, <3>2 DEF fr
      <4> QED
        BY <1>1, <4>1, AppendProperties DEF Last
    <3>4. Begins(d) /\ \A x \in Entry : Begins(x) => x = d
      BY <2>1, <3>1, <3>3 DEF Begins
    <3>5. path' = PathOf(d)
      <4>1. Len(frames') > Len(frames)
        BY <3>1, <3>3
      <4>2. path' = IF phase' = "listing" \/ Len(frames') > Len(frames)
                    THEN PathOf(d) ELSE Cut(PathOf(d), d)
        BY <2>1, <3>4, OneBegins
      <4> QED
        BY <4>1, <4>2, Zenon
    <3>6. Before(frames') = Here(frames, d)
      <4>1. n \in Nat /\ n # 0 /\ \A j \in 1 .. n : frames'[j].dir = frames[j].dir
        BY <3>1, <3>3
      <4>2. Before(frames') = IF n = 0 THEN NameOf(frames'[1].dir)
                              ELSE Here(frames, frames'[n + 1].dir)
        BY <1>1, <3>3, <4>1, BeforeSteps
      <4> QED
        BY <3>3, <4>1, <4>2, Zenon
    <3>7. Holds(path', Before(frames')) /\ CString(path'.str) = FullPath(d)
      BY <2>1, <3>5, <3>6, PathOfEntry
    <3> QED
      BY <2>1, <3>4, <3>7 DEF TextInv, Named
  <2> QED
    BY <1>7, <2>2, <2>3 DEF EnterDir
<1>8. CASE LeaveDir
  <2>1. phase = "walking" /\ frames # << >> /\ Current.left = {}
    BY <1>8 DEF LeaveDir
  <2>2. \A x \in Entry : ~ Begins(x)
    BY <2>1 DEF Begins
  <2>3. CASE Len(frames) = 1
    <3>1. phase' \in {"EXIT_SUCCESS", "EXIT_FAILURE"}
      BY <1>8, <2>3 DEF LeaveDir
    <3> QED
      BY <2>2, <3>1 DEF TextInv, Named
  <2>4. CASE Len(frames) # 1
    <3> DEFINE n == Len(frames)
    <3>1. /\ n \in Nat /\ n > 1
          /\ frames' \in Seq(Frame)
          /\ Len(frames') = n - 1
          /\ \A j \in 1 .. n - 2 : frames'[j] = frames[j]
          /\ frames'[n - 1] = [frames[n - 1] EXCEPT !.left = @ \ {frames[n].dir},
                                                    !.success = frames[n].success]
      BY <1>1, <1>8, <2>1, <2>4, LeaveResult
    <3>2. /\ Current = frames[n] /\ frames[n - 1] \in Frame /\ frames[n].dir \in Entry
          /\ phase' = "walking" /\ frames' # << >>
      <4>1. n \in 1 .. n /\ n - 1 \in 1 .. n
        BY <3>1
      <4>2. frames[n - 1] \in Frame /\ frames[n].dir \in Entry
        BY <1>1, <4>1, ElementOfSeq, FrameDirs
      <4>3. phase' = "walking" /\ frames' # << >>
        BY <1>8, <2>1, <2>4, <3>1 DEF LeaveDir
      <4> QED
        BY <4>2, <4>3 DEF Current, Last
    <3>3. path' = Cut(path, frames[n].dir)
      <4>1. n > 1 /\ Len(frames') < n
        BY <3>1
      <4> QED
        BY <2>1, <2>2, <3>2, <4>1, NoneBegins
    <3>4. Before(frames) = Here(frames', frames[n].dir)
      <4> DEFINE m == n - 1
      <4>1. m \in Nat /\ m # 0 /\ n = m + 1 /\ n - 2 = m - 1
        BY <3>1
      <4>2. frames'[m].dir = frames[m].dir
        BY <3>1, <3>2 DEF Frame
      <4>3. \A j \in 1 .. m - 1 : frames'[j] = frames[j]
        BY <3>1
      <4> HIDE DEF m
      <4>4. \A i \in 1 .. m : frames[i].dir = frames'[i].dir
        <5>1. \A i \in 1 .. m : i = m \/ i \in 1 .. m - 1
          BY <4>1
        <5> QED
          BY <4>2, <4>3, <5>1
      <4>5. Len(frames') = m
        BY <3>1 DEF m
      <4>6. Before(frames) = IF m = 0 THEN NameOf(frames[1].dir)
                             ELSE Here(frames', frames[m + 1].dir)
        BY <1>1, <3>1, <4>1, <4>4, <4>5, BeforeSteps
      <4> QED
        BY <4>1, <4>6, Zenon
    <3>5. Holds(path', Before(frames'))
      <4>1. Before(frames') \in Seq(Char)
        BY <3>1, <3>2, BeforeProperties
      <4>2. Holds(path, (Before(frames') \o <<"/">>) \o NameOf(frames[n].dir))
        BY <2>1, <3>4, Zenon DEF TextInv, Here
      <4> QED
        BY <3>2, <3>3, <4>1, <4>2, CutPath
    <3> QED
      BY <2>2, <3>2, <3>5 DEF TextInv, Named
  <2> QED
    BY <2>3, <2>4
<1>9. CASE Retag
  <2>1. UNCHANGED <<phase, frames, file>>
    BY <1>9 DEF Retag
  <2> QED
    BY <2>1, PathStays
<1> QED
  BY <1>2, <1>3, <1>4, <1>5, <1>6, <1>7, <1>8, <1>9 DEF PNext, Next, Search

(* The search with its path is a search.                                   *)
LEMMA PathSearches == PSpec => Spec
<1>1. PInit => Init
  BY DEF PInit
<1>2. [PNext]_pathVars => [Next]_vars
  BY DEF PNext, pathVars
<1> QED
  BY <1>1, <1>2, PTL DEF PSpec, Spec

(* The path always names the entry that is looked at: stat, opendir,       *)
(* listxattr and printf read the names of the directories down to it and   *)
(* its own, for any names, whatever longer names the buffer held before,   *)
(* and no name outgrows the memory.                                        *)
THEOREM PathRight == PSpec => PathNamesEntry
<1>1. PInit => TextInv
  <2> SUFFICES ASSUME PInit PROVE TextInv
    OBVIOUS
  <2>1. phase = "parsing" /\ frames = << >> /\ path = display_files
    BY DEF PInit, Init
  <2> QED
    BY <2>1, FirstPath DEF TextInv
<1>2. SearchInv /\ TextInv /\ [PNext]_pathVars => TextInv'
  <2> SUFFICES ASSUME SearchInv, TextInv, [PNext]_pathVars PROVE TextInv'
    OBVIOUS
  <2>1. CASE PNext
    BY <2>1, TextStep DEF SearchInv
  <2>2. CASE UNCHANGED pathVars
    BY <2>2 DEF pathVars, vars, TextInv
  <2> QED
    BY <2>1, <2>2
<1>3. SearchInv /\ TextInv /\ [PNext]_pathVars => [Named]_pathVars
  <2> SUFFICES ASSUME SearchInv, TextInv, PNext PROVE Named
    BY DEF pathVars
  <2> QED
    BY TextStep DEF SearchInv
<1>4. PSpec => []SearchInv
  BY PathSearches, SearchInvHolds, PTL
<1>5. PSpec => [][Named]_pathVars
  BY <1>1, <1>2, <1>3, <1>4, PTL DEF PSpec
<1> QED
  BY <1>5 DEF PathNamesEntry, Named

=============================================================================
