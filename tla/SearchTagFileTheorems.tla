----------------------- MODULE SearchTagFileTheorems -----------------------
(***************************************************************************)
(* What SearchTagFile guarantees for every directory tree, expression and  *)
(* list of attributes.                                                     *)
(***************************************************************************)
EXTENDS SearchTagFile, TagTreeTheorems

-----------------------------------------------------------------------------
(***************************************************************************)
(* The lengths of lists of keys.                                           *)
(***************************************************************************)

(* The elements of a list of keys, and the lengths of the keys.            *)
LEMMA KeysOfList ==
    ASSUME NEW s \in Seq(Attribute)
    PROVE  /\ Len(s) \in Nat
           /\ DOMAIN s = 1 .. Len(s)
           /\ \A j \in 1 .. Len(s) : s[j] \in Attribute /\ KeySize[s[j]] \in Nat \ {0}
<1>1. Len(s) \in Nat /\ DOMAIN s = 1 .. Len(s)
  BY LenProperties
<1>2. \A j \in 1 .. Len(s) : s[j] \in Attribute
  BY ElementOfSeq
<1> QED
  BY <1>1, <1>2, SearchAssumption

(* The recursion of PrefixSize, for the first n keys.                      *)
AddsUp(s, n, size) ==
    size = [j \in 0 .. n |-> IF j = 0 THEN 0 ELSE size[j - 1] + KeySize[s[j]]]

(* It has a solution on every first part of the list: the least one        *)
(* without would have one.                                                 *)
LEMMA PrefixSizeExists ==
    ASSUME NEW s \in Seq(Attribute), NEW n \in Nat, n <= Len(s)
    PROVE  \E size \in [0 .. n -> Nat] : AddsUp(s, n, size)
<1> DEFINE Without == {m \in 0 .. Len(s) : ~ \E size \in [0 .. m -> Nat] : AddsUp(s, m, size)}
           least == Min(Without)
<1>1. SUFFICES ASSUME Without # {} PROVE FALSE
  <2>1. n \in 0 .. Len(s)
    BY KeysOfList
  <2> QED
    BY <2>1
<1>2. least \in Without /\ (\A m \in Without : least <= m) /\ least \in 0 .. Len(s)
  <2>1. Without \subseteq Nat
    OBVIOUS
  <2> QED
    BY <1>1, <2>1, MinIsLeast
<1>3. ~ \E size \in [0 .. least -> Nat] : AddsUp(s, least, size)
  BY <1>2
<1>4. least - 1 \notin Without
  <2>1. least \in Nat /\ ~ (least <= least - 1)
    BY <1>2
  <2> HIDE DEF least, Without
  <2> QED
    BY <1>2, <2>1
<1> HIDE DEF least
<1>5. CASE least = 0
  <2> DEFINE size == [j \in 0 .. 0 |-> 0]
  <2>1. size \in [0 .. 0 -> Nat] /\ AddsUp(s, 0, size)
    BY DEF AddsUp
  <2> QED
    BY <2>1, <1>3, <1>5
<1>6. CASE least # 0
  <2>1. least - 1 \in 0 .. Len(s) /\ least \in 1 .. Len(s)
    BY <1>2, <1>6, KeysOfList
  <2>2. least - 1 \notin Without
    BY <2>1, <1>4
  <2>3. PICK size \in [0 .. least - 1 -> Nat] : AddsUp(s, least - 1, size)
    BY <2>1, <2>2
  <2>4. KeySize[s[least]] \in Nat
    BY <2>1, KeysOfList
  <2> DEFINE next == [j \in 0 .. least |->
                          IF j = least THEN size[least - 1] + KeySize[s[least]] ELSE size[j]]
  <2>5. next \in [0 .. least -> Nat]
    BY <2>1, <2>4
  <2>6. \A j \in 0 .. least - 1 : size[j] = IF j = 0 THEN 0 ELSE size[j - 1] + KeySize[s[j]]
    BY <2>3 DEF AddsUp
  <2>7. \A j \in 0 .. least : next[j] = IF j = 0 THEN 0 ELSE next[j - 1] + KeySize[s[j]]
    BY <2>1, <2>6
  <2>8. AddsUp(s, least, next)
    BY <2>7 DEF AddsUp
  <2> QED
    BY <2>5, <2>8, <1>3
<1> QED
  BY <1>5, <1>6

(* The length of the first keys: nothing for none of them, and one key     *)
(* adds its own length.                                                    *)
LEMMA PrefixSizeSteps ==
    ASSUME NEW s \in Seq(Attribute)
    PROVE  /\ PrefixSize(s, 0) = 0
           /\ \A n \in 1 .. Len(s) : PrefixSize(s, n) = PrefixSize(s, n - 1) + KeySize[s[n]]
<1> DEFINE size == CHOOSE size : AddsUp(s, Len(s), size)
<1>1. \A n : PrefixSize(s, n) = size[n]
  BY DEF PrefixSize, AddsUp
<1>2. Len(s) \in Nat
  BY KeysOfList
<1>3. \E f : AddsUp(s, Len(s), f)
  BY <1>2, PrefixSizeExists
<1>4. AddsUp(s, Len(s), size)
  BY <1>3
<1> HIDE DEF size
<1>5. \A j \in 0 .. Len(s) : size[j] = IF j = 0 THEN 0 ELSE size[j - 1] + KeySize[s[j]]
  BY <1>4 DEF AddsUp
<1> QED
  BY <1>1, <1>2, <1>5

(* No two first parts of a list are as long.                               *)
LEMMA PrefixSizeGrows ==
    ASSUME NEW s \in Seq(Attribute)
    PROVE  /\ \A n \in 0 .. Len(s) : PrefixSize(s, n) \in Nat
           /\ \A n \in 0 .. Len(s) : n < Len(s) => PrefixSize(s, n) < PrefixSize(s, Len(s))
<1>1. Len(s) \in Nat
  BY KeysOfList
<1>2. \A n \in 0 .. Len(s) : PrefixSize(s, n) \in Nat
  <2> DEFINE Bad == {n \in 0 .. Len(s) : PrefixSize(s, n) \notin Nat}
             least == Min(Bad)
  <2>1. SUFFICES ASSUME Bad # {} PROVE FALSE
    OBVIOUS
  <2>2. least \in Bad /\ \A n \in Bad : least <= n
    <3>1. Bad \subseteq Nat
      OBVIOUS
    <3> QED
      BY <2>1, <3>1, MinIsLeast
  <2> HIDE DEF least
  <2>3. least \in 1 .. Len(s) /\ least - 1 \in 0 .. Len(s)
    BY <2>2, <1>1, PrefixSizeSteps
  <2>4. PrefixSize(s, least - 1) \in Nat
    BY <2>2, <2>3
  <2> QED
    BY <2>2, <2>3, <2>4, PrefixSizeSteps, KeysOfList
<1>3. \A n \in 0 .. Len(s) : n < Len(s) => PrefixSize(s, n) < PrefixSize(s, Len(s))
  <2> DEFINE Bad == {d \in 1 .. Len(s) : PrefixSize(s, Len(s) - d) >= PrefixSize(s, Len(s))}
             least == Min(Bad)
  <2>1. SUFFICES ASSUME Bad # {} PROVE FALSE
    <3>1. \A n \in 0 .. Len(s) :
              n < Len(s) => Len(s) - n \in 1 .. Len(s) /\ Len(s) - (Len(s) - n) = n
      BY <1>1
    <3>2. ASSUME NEW n \in 0 .. Len(s), n < Len(s)
          PROVE  PrefixSize(s, n) < PrefixSize(s, Len(s))
      <4>1. Len(s) - n \notin Bad
        BY <2>1
      <4>2. Len(s) \in 0 .. Len(s)
        BY <1>1
      <4> QED
        BY <3>1, <3>2, <4>1, <4>2, <1>2
    <3> QED
      BY <3>2
  <2>2. least \in Bad /\ \A d \in Bad : least <= d
    <3>1. Bad \subseteq Nat
      OBVIOUS
    <3> QED
      BY <2>1, <3>1, MinIsLeast
  <2> HIDE DEF least
  <2> DEFINE n == Len(s) - least
  <2>3. n + 1 \in 1 .. Len(s) /\ n \in 0 .. Len(s) /\ (n + 1) - 1 = n /\ Len(s) \in 0 .. Len(s)
    BY <2>2, <1>1
  <2>4. PrefixSize(s, n + 1) = PrefixSize(s, n) + KeySize[s[n + 1]]
    BY <2>3, PrefixSizeSteps
  <2>5. KeySize[s[n + 1]] \in Nat \ {0} /\ PrefixSize(s, n) \in Nat /\ PrefixSize(s, n + 1) \in Nat
        /\ PrefixSize(s, Len(s)) \in Nat
    BY <2>3, KeysOfList, <1>2
  <2>6. PrefixSize(s, n) >= PrefixSize(s, Len(s))
    BY <2>2
  <2>7. CASE least = 1
    BY <2>4, <2>5, <2>6, <2>7, <1>1
  <2>8. CASE least # 1
    <3>1. least - 1 \in 1 .. Len(s) /\ Len(s) - (least - 1) = n + 1 /\ ~ (least <= least - 1)
      BY <2>2, <2>8, <1>1
    <3>2. PrefixSize(s, n + 1) < PrefixSize(s, Len(s))
      BY <3>1, <2>2, <2>5, SMTT(20)
    <3> QED
      BY <3>2, <2>4, <2>5, <2>6
  <2> QED
    BY <2>7, <2>8
<1> QED
  BY <1>2, <1>3

-----------------------------------------------------------------------------
(***************************************************************************)
(* Type correctness.                                                       *)
(***************************************************************************)

(* All frames but the last.                                                *)
LEMMA FrontFrames ==
    ASSUME NEW s \in Seq(Frame), s # << >>
    PROVE  /\ Len(s) \in Nat \ {0}
           /\ Last(s) = s[Len(s)] /\ s[Len(s)] \in Frame
           /\ Front(s) \in Seq(Frame)
           /\ Len(Front(s)) = Len(s) - 1
           /\ \A j \in 1 .. Len(s) - 1 : Front(s)[j] = s[j]
<1>1. Len(s) \in Nat \ {0} /\ \A j \in 1 .. Len(s) : s[j] \in Frame
  BY EmptySeq, LenProperties, ElementOfSeq
<1>2. ASSUME NEW n \in Nat, n = Len(s) - 1
      PROVE  /\ SubSeq(s, 1, n) \in Seq(Frame)
             /\ Len(SubSeq(s, 1, n)) = n
             /\ \A j \in 1 .. n : SubSeq(s, 1, n)[j] = s[j]
  <2>1. \A j \in 1 .. n : s[j] \in Frame
    BY <1>1, <1>2
  <2> QED
    BY <2>1, SubSeqProperties
<1> DEFINE m == Len(s) - 1
<1>3. m \in Nat /\ m = Len(s) - 1
  BY <1>1
<1> HIDE DEF m
<1>4. /\ SubSeq(s, 1, m) \in Seq(Frame)
      /\ Len(SubSeq(s, 1, m)) = m
      /\ \A j \in 1 .. m : SubSeq(s, 1, m)[j] = s[j]
  BY <1>2, <1>3
<1> QED
  BY <1>1, <1>4 DEF Front, Last, m

(* The last frame replaced.                                                *)
LEMMA ReplaceLast ==
    ASSUME NEW s \in Seq(Frame), s # << >>, NEW new \in Frame
    PROVE  LET t == Front(s) \o <<new>>
           IN  /\ t \in Seq(Frame)
               /\ Len(t) = Len(s)
               /\ \A j \in 1 .. Len(s) - 1 : t[j] = s[j]
               /\ t[Len(s)] = new
<1>1. <<new>> \in Seq(Frame) /\ Len(<<new>>) = 1 /\ <<new>>[1] = new
  OBVIOUS
<1>2. /\ Len(s) \in Nat \ {0}
      /\ Front(s) \in Seq(Frame)
      /\ Len(Front(s)) = Len(s) - 1
      /\ \A j \in 1 .. Len(s) - 1 : Front(s)[j] = s[j]
  BY FrontFrames
<1> DEFINE t == Front(s) \o <<new>>
<1>3. /\ t \in Seq(Frame)
      /\ Len(t) = Len(s)
      /\ \A j \in 1 .. Len(s) :
             t[j] = IF j <= Len(s) - 1 THEN Front(s)[j] ELSE <<new>>[j - (Len(s) - 1)]
  BY <1>1, <1>2, ConcatProperties
<1> QED
  BY <1>1, <1>2, <1>3

(* Going on in the innermost directory changes its frame and no other.     *)
LEMMA AfterResult ==
    ASSUME frames \in Seq(Frame), frames # << >>,
           NEW e, NEW b \in BOOLEAN, After(e, b)
    PROVE  /\ frames' \in Seq(Frame)
           /\ Len(frames') = Len(frames)
           /\ \A j \in 1 .. Len(frames) - 1 : frames'[j] = frames[j]
           /\ frames'[Len(frames)] = [frames[Len(frames)] EXCEPT !.left = @ \ {e},
                                                                 !.success = @ /\ b]
<1> DEFINE new == [frames[Len(frames)] EXCEPT !.left = @ \ {e}, !.success = @ /\ b]
<1>1. Current = frames[Len(frames)] /\ frames[Len(frames)] \in Frame
  BY FrontFrames DEF Current
<1>2. new \in Frame
  BY <1>1 DEF Frame
<1>3. frames' = Front(frames) \o <<new>>
  BY <1>1 DEF After
<1> HIDE DEF new
<1>4. /\ frames' \in Seq(Frame)
      /\ Len(frames') = Len(frames)
      /\ \A j \in 1 .. Len(frames) - 1 : frames'[j] = frames[j]
      /\ frames'[Len(frames)] = new
  BY <1>2, <1>3, ReplaceLast
<1> QED
  BY <1>4 DEF new

(* Leaving a subdirectory changes the frame of the directory it is in.     *)
LEMMA LeaveResult ==
    ASSUME frames \in Seq(Frame), frames # << >>, Len(frames) # 1, LeaveDir
    PROVE  LET n == Len(frames)
           IN  /\ n \in Nat /\ n > 1
               /\ frames' \in Seq(Frame)
               /\ Len(frames') = n - 1
               /\ \A j \in 1 .. n - 2 : frames'[j] = frames[j]
               /\ frames'[n - 1] = [frames[n - 1] EXCEPT !.left = @ \ {frames[n].dir},
                                                         !.success = frames[n].success]
<1> DEFINE n     == Len(frames)
           outer == Front(frames)
           new   == [frames[n - 1] EXCEPT !.left = @ \ {frames[n].dir},
                                          !.success = frames[n].success]
<1>1. /\ n \in Nat /\ n > 1
      /\ Current = frames[n] /\ frames[n] \in Frame
      /\ outer \in Seq(Frame)
      /\ Len(outer) = n - 1
      /\ \A j \in 1 .. n - 1 : outer[j] = frames[j]
  <2>1. /\ n \in Nat \ {0}
        /\ Last(frames) = frames[n] /\ frames[n] \in Frame
        /\ outer \in Seq(Frame)
        /\ Len(outer) = n - 1
        /\ \A j \in 1 .. n - 1 : outer[j] = frames[j]
    BY FrontFrames
  <2> HIDE DEF outer
  <2> QED
    BY <2>1 DEF Current
<1>2. outer # << >> /\ Last(outer) = frames[n - 1] /\ frames[n - 1] \in Frame
  <2>1. outer # << >>
    BY <1>1
  <2> HIDE DEF outer
  <2> QED
    BY <1>1, <2>1, FrontFrames, SMTT(20)
<1>3. new \in Frame
  BY <1>1, <1>2 DEF Frame
<1>4. frames' = Front(outer) \o <<new>>
  BY <1>1, <1>2 DEF LeaveDir
<1> HIDE DEF new, outer
<1>5. /\ frames' \in Seq(Frame)
      /\ Len(frames') = Len(outer)
      /\ \A j \in 1 .. Len(outer) - 1 : frames'[j] = outer[j]
      /\ frames'[Len(outer)] = new
  BY <1>1, <1>2, <1>3, <1>4, ReplaceLast
<1> QED
  BY <1>1, <1>5 DEF new

(* The four ends of valid_result: an unwanted tag, all wanted tags of an   *)
(* expression that has no unwanted ones, the end of the list, none.        *)
LEMMA ValidResultCases ==
    ASSUME NEW s \in Seq(Attribute), NEW len, NEW o \in valid_result(s, len)
    PROVE  \/ \E i \in 1 .. Len(s) :
                  /\ s[i] \in Unwanted
                  /\ o = Outcome(FALSE, Minus(len, PrefixSize(s, i - 1)))
           \/ \E i \in 1 .. Len(s) :
                  /\ s[i] \in Name /\ HasWanted(s, i) /\ unwanted_tags = {}
                  /\ \A n \in 0 .. Len(s) : PrefixSize(s, n) = len => i <= n
                  /\ o = Outcome(TRUE, 0)
           \/ \E last \in 0 .. Len(s) :
                  /\ PrefixSize(s, last) = len
                  /\ \A n \in 0 .. Len(s) : PrefixSize(s, n) = len => last <= n
                  /\ \A j \in 1 .. last : s[j] \notin Unwanted
                  /\ o = Outcome(HasWanted(s, last) /\ IsTagged(s, last), 0)
           \/ /\ \A n \in 0 .. Len(s) : PrefixSize(s, n) # len
              /\ o \in ReadsOn
<1> DEFINE ends  == {n \in 0 .. Len(s) : PrefixSize(s, n) = len}
           last  == Min(ends \cup {Len(s) + 1})
           bound == Min({last, Len(s)})
           Stop(k) == \/ s[k] \in Unwanted
                      \/ s[k] \in Name /\ HasWanted(s, k) /\ unwanted_tags = {}
           stops == {k \in 1 .. bound : Stop(k)}
           i     == Min(stops)
<1>1. Len(s) \in Nat
  BY KeysOfList
<1>2. /\ last \in ends \cup {Len(s) + 1}
      /\ \A n \in ends : last <= n
      /\ last \in 0 .. Len(s) + 1
      /\ ends # {} => last \in ends
  <2>1. ends \cup {Len(s) + 1} \subseteq Nat /\ ends \cup {Len(s) + 1} # {}
    BY <1>1
  <2>2. last \in ends \cup {Len(s) + 1} /\ \A n \in ends \cup {Len(s) + 1} : last <= n
    BY <2>1, MinIsLeast
  <2>3. \A n \in ends : n \in 0 .. Len(s)
    OBVIOUS
  <2> HIDE DEF ends, last
  <2> QED
    BY <1>1, <2>2, <2>3
<1> HIDE DEF last
<1>3. bound \in {last, Len(s)} /\ bound <= last /\ bound <= Len(s) /\ bound \in Nat
  <2>1. {last, Len(s)} \subseteq Nat /\ {last, Len(s)} # {}
    BY <1>1, <1>2
  <2>2. bound \in {last, Len(s)} /\ \A x \in {last, Len(s)} : bound <= x
    BY <2>1, MinIsLeast
  <2> HIDE DEF bound
  <2> QED
    BY <2>1, <2>2
<1> HIDE DEF bound
<1>4. stops # {} => i \in stops /\ i \in 1 .. bound /\ Stop(i)
  <2>1. stops \subseteq Nat
    <3> HIDE DEF Stop
    <3> QED
      BY <1>3
  <2>2. stops # {} => i \in stops
    BY <2>1, MinIsLeast
  <2> HIDE DEF i, Stop
  <2> QED
    BY <2>2
<1>5. \A k : Stop(k) <=> \/ s[k] \in Unwanted
                         \/ s[k] \in Name /\ HasWanted(s, k) /\ unwanted_tags = {}
  OBVIOUS
<1>6. o \in CASE stops # {} /\ s[i] \in Unwanted ->
                  {Outcome(FALSE, Minus(len, PrefixSize(s, i - 1)))}
              [] stops # {} /\ s[i] \notin Unwanted -> {Outcome(TRUE, 0)}
              [] stops = {} /\ ends # {} -> {Outcome(HasWanted(s, last) /\ IsTagged(s, last), 0)}
              [] OTHER -> ReadsOn
  BY DEF valid_result, last, bound
<1> HIDE DEF i, Stop
<1>7. stops # {} => /\ i \in 1 .. Len(s) /\ i <= last
                    /\ \/ s[i] \in Unwanted
                       \/ s[i] \in Name /\ HasWanted(s, i) /\ unwanted_tags = {}
  <2>1. ASSUME NEW k \in 1 .. bound PROVE k \in 1 .. Len(s) /\ k <= last
    BY <1>1, <1>2, <1>3
  <2> QED
    BY <2>1, <1>4, <1>5
<1>8. stops = {} => \A j \in 1 .. bound : s[j] \notin Unwanted
  BY <1>5
<1> HIDE DEF ends, stops
<1>9. CASE stops # {} /\ s[i] \in Unwanted
  <2>1. o = Outcome(FALSE, Minus(len, PrefixSize(s, i - 1)))
    BY <1>6, <1>9
  <2> QED
    BY <1>9, <1>7, <2>1
<1>10. CASE stops # {} /\ s[i] \notin Unwanted
  <2>0. o = Outcome(TRUE, 0)
    BY <1>6, <1>10
  <2>1. /\ i \in 1 .. Len(s) /\ i <= last
        /\ s[i] \in Name /\ HasWanted(s, i) /\ unwanted_tags = {}
    BY <1>7, <1>10
  <2>2. \A n \in 0 .. Len(s) : PrefixSize(s, n) = len => i <= n
    <3>1. \A n \in 0 .. Len(s) : PrefixSize(s, n) = len => last <= n
      BY <1>2 DEF ends
    <3>2. i \in Nat /\ last \in Nat /\ i <= last
      <4>1. i \in 1 .. Len(s) /\ i <= last
        BY <2>1
      <4>2. last \in 0 .. Len(s) + 1
        BY <1>2
      <4> QED
        BY <4>1, <4>2, <1>1
    <3> QED
      BY <3>1, <3>2
  <2> QED
    BY <2>0, <2>1, <2>2
<1>11. bound \in {last, Len(s)} /\ (last <= Len(s) => bound = last)
  <2>1. \A x \in {last, Len(s)} : bound <= x
    BY <1>3
  <2> QED
    BY <1>1, <1>2, <1>3
<1>12. CASE stops = {} /\ ends # {}
  <2>1. last \in 0 .. Len(s) /\ PrefixSize(s, last) = len
    BY <1>2, <1>12 DEF ends
  <2>2. \A n \in 0 .. Len(s) : PrefixSize(s, n) = len => last <= n
    BY <1>2 DEF ends
  <2>3. \A j \in 1 .. last : s[j] \notin Unwanted
    <3>1. bound = last
      BY <1>1, <1>3, <2>1, <1>12, <1>11
    <3> QED
      BY <3>1, <1>8, <1>12
  <2>4. o = Outcome(HasWanted(s, last) /\ IsTagged(s, last), 0)
    BY <1>6, <1>12
  <2> QED
    BY <2>1, <2>2, <2>3, <2>4
<1>13. CASE stops = {} /\ ends = {}
  BY <1>6, <1>13 DEF ends
<1> QED
  BY <1>9, <1>10, <1>12, <1>13

(* What valid_result returns, and leaves for str_length.                   *)
LEMMA ValidResultTypes ==
    ASSUME NEW s \in Seq(Attribute), NEW len \in Nat \cup {-1}, NEW o \in valid_result(s, len)
    PROVE  o.len \in Nat \cup {-1} /\ o.crash \in BOOLEAN /\ o.result \in BOOLEAN
<1>1. \A n \in 0 .. Len(s) : PrefixSize(s, n) \in Nat
  BY PrefixSizeGrows
<1>2. ASSUME NEW i \in 1 .. Len(s) PROVE Minus(len, PrefixSize(s, i - 1)) \in Nat \cup {-1}
  <2>1. PrefixSize(s, i - 1) \in Nat
    BY <1>1, KeysOfList
  <2> QED
    BY <2>1 DEF Minus
<1>3. \A last : (HasWanted(s, last) /\ IsTagged(s, last)) \in BOOLEAN
  OBVIOUS
<1>4. \A r, n : /\ Outcome(r, n).crash = FALSE
                /\ Outcome(r, n).result = r
                /\ Outcome(r, n).len = n
  BY DEF Outcome
<1>5. o \in ReadsOn => o.len \in Nat \cup {-1} /\ o.crash \in BOOLEAN /\ o.result \in BOOLEAN
  <2>1. SUFFICES ASSUME o \in ReadsOn, o # [crash |-> TRUE, result |-> FALSE, len |-> 0]
                 PROVE  o.len \in Nat \cup {-1} /\ o.crash \in BOOLEAN /\ o.result \in BOOLEAN
    <3>1. o = [crash |-> TRUE, result |-> FALSE, len |-> 0] =>
              o.len \in Nat \cup {-1} /\ o.crash \in BOOLEAN /\ o.result \in BOOLEAN
      OBVIOUS
    <3> QED
      BY <3>1, Zenon
  <2>2. PICK r \in BOOLEAN, n \in {-1, 0} : o = Outcome(r, n)
    BY <2>1 DEF ReadsOn
  <2>3. o.crash = FALSE /\ o.result = r /\ o.len = n
    BY <2>2, <1>4, Zenon
  <2>4. n \in Nat \cup {-1}
    OBVIOUS
  <2> QED
    BY <2>3, <2>4, Zenon
<1>6. 0 \in Nat \cup {-1}
  OBVIOUS
<1>7. ASSUME NEW r \in BOOLEAN, NEW n \in Nat \cup {-1}, o = Outcome(r, n)
      PROVE  o.len \in Nat \cup {-1} /\ o.crash \in BOOLEAN /\ o.result \in BOOLEAN
  <2>1. o.crash = FALSE /\ o.result = r /\ o.len = n
    BY <1>7, <1>4, Zenon
  <2> QED
    BY <2>1, Zenon
<1>8. \/ \E r \in BOOLEAN, n \in Nat \cup {-1} : o = Outcome(r, n)
      \/ o \in ReadsOn
  <2>1. CASE \E i \in 1 .. Len(s) : o = Outcome(FALSE, Minus(len, PrefixSize(s, i - 1)))
    BY <2>1, <1>2
  <2>2. CASE o = Outcome(TRUE, 0)
    BY <2>2, <1>6
  <2>3. CASE \E last \in 0 .. Len(s) : o = Outcome(HasWanted(s, last) /\ IsTagged(s, last), 0)
    BY <2>3, <1>3, <1>6
  <2> QED
    BY <2>1, <2>2, <2>3, ValidResultCases, Zenon
<1> QED
  BY <1>5, <1>7, <1>8

(* The lists of keys the files have.                                       *)
LEMMA KeysOfFile ==
    ASSUME TypeOK, NEW f \in File
    PROVE  attrs[f] \in Seq(Attribute) /\ Size(f) \in Nat
<1>1. attrs[f] \in Seq(Attribute)
  BY InputAssumption DEF TypeOK
<1>2. Len(attrs[f]) \in 0 .. Len(attrs[f])
  BY <1>1, KeysOfList
<1> QED
  BY <1>1, <1>2, PrefixSizeGrows DEF Size

(* The end of the loop's body for a file.                                  *)
LEMMA JudgeKeepsTypes ==
    ASSUME TypeOK, frames # << >>,
           NEW f \in File, NEW list \in Seq(Attribute), NEW len \in Nat \cup {-1},
           Judge(f, list, len)
    PROVE  /\ phase' \in {"crashed", "walking"}
           /\ printed' \subseteq File
           /\ str_length' \in Nat \cup {-1}
           /\ frames' \in Seq(Frame)
<1>1. PICK o \in valid_result(list, len) :
          /\ phase' = IF o.crash THEN "crashed" ELSE "walking"
          /\ printed' = IF o.result THEN printed \cup {f} ELSE printed
          /\ str_length' = o.len
          /\ After(f, TRUE)
  BY DEF Judge
<1>2. frames' \in Seq(Frame)
  BY <1>1, AfterResult DEF TypeOK
<1>3. o.len \in Nat \cup {-1}
  BY ValidResultTypes
<1> QED
  BY <1>1, <1>2, <1>3 DEF TypeOK

(* A directory whose path leads through so many links.                     *)
LEMMA OpenedFrame ==
    ASSUME NEW d \in Dir, NEW k \in 0 .. MaxLinks
    PROVE  Opened(d, k) \in Frame
BY DEF Opened, Frame, Entries

(* What add_tag_children may add is a set of names.                        *)
LEMMA AddedNames ==
    ASSUME TypeOK, NEW i \in DOMAIN expression, NEW below \in add_tag_children(i)
    PROVE  below \subseteq Name /\ expression[i].tag \in Name
<1>1. tree \in Tree /\ expression \in Seq(Member)
  BY InputAssumption DEF TypeOK
<1>2. expression[i].tag \in Name
  <2>1. expression[i] \in Member
    BY <1>1, ElementOfSeq, LenProperties
  <2> QED
    BY <2>1 DEF Member
<1>3. ASSUME NEW k \in 1 .. Len(tree)
      PROVE  add_all_children(tree, k) \subseteq Name
  <2>1. tree[k].depth + 1 \in Nat /\ \A j \in 1 .. Len(tree) : tree[j].name \in Name
    BY <1>1, TreeElements
  <2>2. EndOfArray(tree, k, tree[k].depth + 1) \in k .. Len(tree)
    BY <1>1, <2>1, EndOfArrayBounds
  <2>3. \A j \in k + 1 .. EndOfArray(tree, k, tree[k].depth + 1) : j \in 1 .. Len(tree)
    BY <1>1, <2>2, TreeElements
  <2> QED
    BY <2>1, <2>3 DEF add_all_children
<1>4. \A j : Found(j) # 0 => Found(j) \in 1 .. Len(tree)
  BY <1>1, GetTagFinds, TreeElements DEF Found
<1>5. \E j : Found(j) # 0 /\ below = add_all_children(tree, Found(j))
  BY DEF add_tag_children
<1> QED
  BY <1>2, <1>3, <1>4, <1>5

-----------------------------------------------------------------------------
(***************************************************************************)
(* The inductive invariant.                                                *)
(***************************************************************************)

LinkStep(d) == IF d \in Link THEN 1 ELSE 0

(* The frames are a path down from the directory of the command line; all  *)
(* but the last are of directories where nothing has failed.               *)
PathInv ==
    /\ phase = "listing" => frames # << >> /\ file \in Last(frames).left \cap File
    /\ frames # << >> => frames[1].dir = Top /\ frames[1].links = 0
    /\ \A i \in 1 .. Len(frames) - 1 :
           /\ frames[i].success
           /\ frames[i + 1].links = frames[i].links + LinkStep(frames[i + 1].dir)

(* The members stand for the tags they should, and those that are not in   *)
(* the tree perhaps for more.                                              *)
ExpandedInv ==
    phase \in {"walking", "listing"} =>
        \A i \in DOMAIN expression :
            /\ StandsFor(expression[i].tag) \subseteq expanded[i]
            /\ Found(i) # 0 => expanded[i] \subseteq StandsFor(expression[i].tag)

(* If no other command runs, a list of keys has room in the buffer that    *)
(* was made for it.                                                        *)
CapacityInv ==
    "retag" \notin Events /\ phase = "listing" => Size(file) <= str_capacity

(* Nothing more is to be done for the file f: SuccessIsComplete.           *)
Covered(f) ==
    "retag" \notin Events /\ Known(unwanted_tags) => f \in printed \/ ~ Satisfies(f)

(* A set of directories, each with the links of a path to it, that are     *)
(* done with: so are their files, and their subdirectories are in the set. *)
Closed(D) ==
    \A p \in D : \A e \in Entries(p[1]) :
        /\ e \in File => Covered(e)
        /\ e \in Dir => <<e, p[2] + LinkStep(e)>> \in D

(* The directory d, with so many links on the path to it, is done with.    *)
(* Where links lead in a circle no finite set of steps shows it: it is     *)
(* enough that no entry below is left open.                                *)
Done(d, links) ==
    \E D \in SUBSET (Dir \X (0 .. MaxLinks)) : Closed(D) /\ <<d, links>> \in D

(* The entry e of a directory with so many links on the path to it.        *)
EntryDone(e, links) ==
    /\ e \in File => Covered(e)
    /\ e \in Dir => Done(e, links + LinkStep(e))

(* Unless something has failed, what is no longer left is done with.       *)
DoneInv ==
    /\ \A i \in DOMAIN frames : frames[i].success =>
           \A e \in Entries(frames[i].dir) \ frames[i].left : EntryDone(e, frames[i].links)
    /\ phase = "EXIT_SUCCESS" => Done(Top, 0)

(* Without "_", valid_result leaves an empty buffer.                       *)
ExactInv ==
    "retag" \notin Events /\ Known(wanted_tags) /\ unwanted_tags = {} =>
        /\ phase # "crashed"
        /\ phase \in {"parsing", "walking"} => str_length = 0
        /\ \A f \in printed : Satisfies(f)

-----------------------------------------------------------------------------
(***************************************************************************)
(* The types and the path.                                                 *)
(***************************************************************************)

(* The initial states satisfy the invariant.                               *)
LEMMA InitInv ==
    ASSUME Init
    PROVE  TypeOK /\ PathInv /\ ExpandedInv /\ CapacityInv /\ DoneInv /\ ExactInv
<1>1. frames = << >> /\ phase = "parsing" /\ printed = {} /\ str_length = 0
  BY DEF Init
<1>2. << >> \in Seq(Frame) /\ << >> \in Seq(Attribute) /\ Len(<< >>) = 0 /\ DOMAIN << >> = {}
  OBVIOUS
<1>3. TypeOK
  BY <1>2 DEF Init, TypeOK
<1>4. PathInv
  BY <1>1, <1>2 DEF PathInv
<1>5. ExpandedInv /\ CapacityInv /\ DoneInv /\ ExactInv
  BY <1>1, <1>2 DEF ExpandedInv, CapacityInv, DoneInv, ExactInv
<1> QED
  BY <1>3, <1>4, <1>5

(* A step of the search, or of a command that changes tags, keeps the      *)
(* types.                                                                  *)
LEMMA TypeStep ==
    ASSUME TypeOK, PathInv, [Next]_vars
    PROVE  TypeOK'
<1> USE DEF command, buffer
<1>1. CASE Parse
  <2>1. PICK sets \in [DOMAIN expression -> SUBSET Name] : expanded' = sets
    BY <1>1 DEF Parse
  <2>2. <<Opened(Top, 0)>> \in Seq(Frame)
    BY OpenedFrame, SearchAssumption
  <2>3. frames' \in Seq(Frame) /\ phase' \in {"EXIT_FAILURE", "walking"}
    BY <1>1, <2>2 DEF Parse, TypeOK
  <2> QED
    BY <1>1, <2>1, <2>3 DEF Parse, TypeOK
<1>2. CASE Refuse
  <2>1. phase' \in {"refused", "crashed"}
    BY <1>2 DEF Refuse
  <2> QED
    BY <1>2, <2>1 DEF Refuse, TypeOK
<1>3. ASSUME NEW f \in File, MeasureNothing(f)
      PROVE  TypeOK'
  <2>1. frames # << >> /\ Judge(f, keys, str_length)
    BY <1>3 DEF MeasureNothing, Next_file
  <2>2. /\ phase' \in {"crashed", "walking"}
        /\ printed' \subseteq File
        /\ str_length' \in Nat \cup {-1}
        /\ frames' \in Seq(Frame)
    BY <2>1, JudgeKeepsTypes DEF TypeOK
  <2> QED
    BY <1>3, <2>2 DEF MeasureNothing, TypeOK
<1>4. ASSUME NEW f \in File, MeasureKeys(f)
      PROVE  TypeOK'
  <2>1. Size(f) \in Nat
    BY KeysOfFile
  <2>2. str_capacity' \in Nat
    BY <1>4, <2>1 DEF MeasureKeys, TypeOK
  <2> QED
    BY <1>4, <2>2 DEF MeasureKeys, TypeOK
<1>5. ASSUME NEW f \in File, MeasureFails(f)
      PROVE  TypeOK'
  <2>1. frames' \in Seq(Frame)
    BY <1>5, AfterResult DEF MeasureFails, Next_file, TypeOK
  <2> QED
    BY <1>5, <2>1 DEF MeasureFails, Next_file, TypeOK
<1>6. CASE ListKeys
  <2>1. file \in File /\ frames # << >>
    BY <1>6 DEF ListKeys, TypeOK, PathInv
  <2>2. keys' \in Seq(Attribute) /\ Size(file) \in Nat \cup {-1}
    BY <1>6, <2>1, KeysOfFile DEF ListKeys, TypeOK
  <2>3. /\ phase' \in {"crashed", "walking"}
        /\ printed' \subseteq File
        /\ str_length' \in Nat \cup {-1}
        /\ frames' \in Seq(Frame)
    BY <1>6, <2>1, <2>2, JudgeKeepsTypes DEF ListKeys
  <2> QED
    BY <1>6, <2>2, <2>3 DEF ListKeys, TypeOK
<1>7. CASE ListFails
  <2>1. frames' \in Seq(Frame)
    BY <1>7, AfterResult DEF ListFails, PathInv, TypeOK
  <2> QED
    BY <1>7, <2>1 DEF ListFails, TypeOK
<1>8. ASSUME NEW d \in Dir, EnterDir(d)
      PROVE  TypeOK'
  <2>1. frames' \in Seq(Frame)
    <3>1. CASE frames' = Append(frames, Opened(d, LinksTo(d))) /\ LinksTo(d) <= MaxLinks
      <4>1. Current.links \in 0 .. MaxLinks
        <5>1. Current \in Frame
          BY <1>8, FrontFrames DEF EnterDir, TypeOK, Current
        <5> QED
          BY <5>1 DEF Frame
      <4>2. LinksTo(d) \in 0 .. MaxLinks
        BY <3>1, <4>1, SearchAssumption DEF LinksTo
      <4> QED
        BY <3>1, <4>2, OpenedFrame, AppendProperties DEF TypeOK
    <3>2. CASE After(d, FALSE)
      BY <1>8, <3>2, AfterResult DEF EnterDir, TypeOK
    <3> QED
      BY <1>8, <3>1, <3>2 DEF EnterDir
  <2> QED
    BY <1>8, <2>1 DEF EnterDir, TypeOK
<1>9. CASE LeaveDir
  <2>1. frames' \in Seq(Frame) /\ phase' \in {"EXIT_SUCCESS", "EXIT_FAILURE", "walking"}
    <3>1. CASE Len(frames) = 1
      BY <1>9, <3>1 DEF LeaveDir
    <3>2. CASE Len(frames) # 1
      BY <1>9, <3>2, LeaveResult DEF LeaveDir, TypeOK
    <3> QED
      BY <3>1, <3>2
  <2> QED
    BY <1>9, <2>1 DEF LeaveDir, TypeOK
<1>10. CASE Retag
  BY <1>10 DEF Retag, TypeOK
<1>11. CASE UNCHANGED vars
  BY <1>11 DEF vars, TypeOK
<1> QED
  BY <1>1, <1>2, <1>3, <1>4, <1>5, <1>6, <1>7, <1>8, <1>9, <1>10, <1>11 DEF Next, Search

(* The frames stay a path, whatever a step does with the innermost one.    *)
LEMMA PathAfter ==
    ASSUME TypeOK, PathInv, frames # << >>, phase' # "listing",
           NEW e, NEW b \in BOOLEAN, After(e, b)
    PROVE  PathInv'
<1> DEFINE n == Len(frames)
<1>1. /\ frames' \in Seq(Frame)
      /\ Len(frames') = n
      /\ \A j \in 1 .. n - 1 : frames'[j] = frames[j]
      /\ frames'[n] = [frames[n] EXCEPT !.left = @ \ {e}, !.success = @ /\ b]
  BY AfterResult DEF TypeOK
<1>2. n \in Nat \ {0} /\ frames[n] \in Frame
  BY FrontFrames DEF TypeOK
<1>3. frames'[n].dir = frames[n].dir /\ frames'[n].links = frames[n].links
  BY <1>1, <1>2 DEF Frame
<1>4. \A j \in 1 .. n : frames'[j].dir = frames[j].dir /\ frames'[j].links = frames[j].links
  <2>1. ASSUME NEW j \in 1 .. n - 1
        PROVE  frames'[j].dir = frames[j].dir /\ frames'[j].links = frames[j].links
    BY <1>1
  <2>2. \A j \in 1 .. n : j = n \/ j \in 1 .. n - 1
    BY <1>2
  <2> QED
    BY <1>3, <2>1, <2>2
<1>5. frames'[1].dir = Top /\ frames'[1].links = 0
  BY <1>2, <1>4 DEF PathInv
<1>6. ASSUME NEW j \in 1 .. n - 1
      PROVE  /\ frames'[j].success
             /\ frames'[j + 1].links = frames'[j].links + LinkStep(frames'[j + 1].dir)
  <2>1. j \in 1 .. n /\ j + 1 \in 1 .. n
    BY <1>2
  <2>2. frames[j].success /\ frames[j + 1].links = frames[j].links + LinkStep(frames[j + 1].dir)
    BY DEF PathInv
  <2>3. frames'[j].success
    BY <1>1, <2>2
  <2> QED
    BY <1>4, <2>1, <2>2, <2>3
<1> QED
  BY <1>1, <1>5, <1>6 DEF PathInv

(* Every step keeps the path.                                              *)
LEMMA PathStep ==
    ASSUME TypeOK, PathInv, [Next]_vars
    PROVE  PathInv'
<1> USE DEF command, buffer
<1>1. CASE UNCHANGED frames /\ phase' # "listing"
  BY <1>1 DEF PathInv
<1>2. CASE Parse
  <2>1. CASE UNCHANGED frames
    BY <1>1, <1>2, <2>1 DEF Parse
  <2>2. CASE frames' = <<Opened(Top, 0)>> /\ phase' = "walking"
    BY <2>2 DEF PathInv, Opened
  <2> QED
    BY <1>2, <2>1, <2>2 DEF Parse
<1>3. CASE Refuse
  BY <1>1, <1>3 DEF Refuse
<1>4. ASSUME NEW f \in File, MeasureNothing(f) \/ MeasureFails(f)
      PROVE  PathInv'
  <2>1. \E b \in BOOLEAN : frames # << >> /\ After(f, b)
    BY <1>4 DEF MeasureNothing, MeasureFails, Next_file, Judge
  <2>2. phase' # "listing"
    BY <1>4, JudgeKeepsTypes DEF MeasureNothing, MeasureFails, Next_file, Judge
  <2> QED
    BY <2>1, <2>2, PathAfter
<1>5. ASSUME NEW f \in File, MeasureKeys(f)
      PROVE  PathInv'
  <2>1. frames' = frames /\ frames # << >> /\ file' \in Last(frames').left \cap File
    BY <1>5 DEF MeasureKeys, Next_file, Current
  <2> QED
    BY <2>1 DEF PathInv
<1>6. CASE ListKeys \/ ListFails
  <2>1. frames # << >> /\ file \in File
    BY <1>6 DEF ListKeys, ListFails, PathInv
  <2>2. (\E b \in BOOLEAN : After(file, b)) /\ phase' # "listing"
    BY <1>6 DEF ListKeys, ListFails, Judge
  <2> QED
    BY <2>1, <2>2, PathAfter
<1>7. ASSUME NEW d \in Dir, EnterDir(d)
      PROVE  PathInv'
  <2>1. CASE /\ frames' = Append(frames, Opened(d, LinksTo(d)))
             /\ Current.success /\ LinksTo(d) <= MaxLinks
    <3> DEFINE n == Len(frames)
    <3>1. n \in Nat \ {0} /\ Current = frames[n] /\ Current \in Frame
      BY <1>7, FrontFrames DEF EnterDir, TypeOK, Current
    <3>2. LinksTo(d) \in 0 .. MaxLinks /\ LinksTo(d) = frames[n].links + LinkStep(d)
      <4>1. frames[n].links \in 0 .. MaxLinks
        BY <3>1 DEF Frame
      <4> QED
        BY <2>1, <3>1, <4>1, SearchAssumption DEF LinksTo, LinkStep
    <3>3. /\ Len(frames') = n + 1
          /\ \A j \in 1 .. n : frames'[j] = frames[j]
          /\ frames'[n + 1] = Opened(d, LinksTo(d))
      BY <2>1, <3>2, OpenedFrame, AppendProperties DEF TypeOK
    <3>4. frames'[1].dir = Top /\ frames'[1].links = 0
      BY <3>1, <3>3, <1>7 DEF PathInv, EnterDir
    <3>5. \A j \in 1 .. n :
              /\ frames'[j].success
              /\ frames'[j + 1].links = frames'[j].links + LinkStep(frames'[j + 1].dir)
      <4>1. ASSUME NEW j \in 1 .. n - 1
            PROVE  /\ frames'[j].success
                   /\ frames'[j + 1].links = frames'[j].links + LinkStep(frames'[j + 1].dir)
        <5>1. j \in 1 .. n /\ j + 1 \in 1 .. n
          BY <3>1
        <5> QED
          BY <3>3, <5>1 DEF PathInv
      <4>2. /\ frames'[n].success
            /\ frames'[n + 1].links = frames'[n].links + LinkStep(frames'[n + 1].dir)
        BY <2>1, <3>1, <3>2, <3>3 DEF Opened
      <4> QED
        BY <3>1, <4>1, <4>2
    <3>6. phase' # "listing" /\ Len(frames') - 1 = n
      BY <1>7, <3>1, <3>3 DEF EnterDir
    <3> QED
      BY <3>4, <3>5, <3>6 DEF PathInv
  <2>2. CASE After(d, FALSE)
    BY <1>7, <2>2, PathAfter DEF EnterDir
  <2> QED
    BY <1>7, <2>1, <2>2 DEF EnterDir
<1>8. CASE LeaveDir
  <2>1. CASE Len(frames) = 1
    BY <1>8, <2>1 DEF LeaveDir, PathInv
  <2>2. CASE Len(frames) # 1
    <3> DEFINE n == Len(frames)
    <3>1. /\ n \in Nat /\ n > 1
          /\ Len(frames') = n - 1
          /\ \A j \in 1 .. n - 2 : frames'[j] = frames[j]
          /\ frames'[n - 1] = [frames[n - 1] EXCEPT !.left = @ \ {frames[n].dir},
                                                    !.success = frames[n].success]
      BY <1>8, <2>2, LeaveResult DEF TypeOK, LeaveDir
    <3>2. frames[n - 1] \in Frame
      BY <3>1, ElementOfSeq DEF TypeOK
    <3>3. \A j \in 1 .. n - 1 : frames'[j].dir = frames[j].dir /\ frames'[j].links = frames[j].links
      <4>1. ASSUME NEW j \in 1 .. n - 2
            PROVE  frames'[j].dir = frames[j].dir /\ frames'[j].links = frames[j].links
        BY <3>1
      <4>2. /\ frames'[n - 1].dir = frames[n - 1].dir
            /\ frames'[n - 1].links = frames[n - 1].links
        BY <3>1, <3>2 DEF Frame
      <4>3. \A j \in 1 .. n - 1 : j = n - 1 \/ j \in 1 .. n - 2
        BY <3>1
      <4> QED
        BY <4>1, <4>2, <4>3
    <3>4. frames'[1].dir = Top /\ frames'[1].links = 0
      BY <1>8, <3>1, <3>3 DEF PathInv, LeaveDir
    <3>5. ASSUME NEW j \in 1 .. n - 2
          PROVE  /\ frames'[j].success
                 /\ frames'[j + 1].links = frames'[j].links + LinkStep(frames'[j + 1].dir)
      <4>1. j \in 1 .. n - 1 /\ j + 1 \in 1 .. n - 1
        BY <3>1
      <4>2. frames[j].success /\ frames[j + 1].links = frames[j].links + LinkStep(frames[j + 1].dir)
        BY <4>1 DEF PathInv
      <4> QED
        BY <3>1, <3>3, <4>1, <4>2
    <3>6. phase' # "listing" /\ Len(frames') - 1 = n - 2
      BY <1>8, <2>2, <3>1 DEF LeaveDir
    <3> QED
      BY <3>4, <3>5, <3>6 DEF PathInv
  <2> QED
    BY <2>1, <2>2
<1>9. CASE Retag
  BY <1>9 DEF Retag, PathInv
<1>10. CASE UNCHANGED vars
  BY <1>10 DEF vars, PathInv
<1> QED
  BY <1>2, <1>3, <1>4, <1>5, <1>6, <1>7, <1>8, <1>9, <1>10 DEF Next, Search

-----------------------------------------------------------------------------
(***************************************************************************)
(* The expression.                                                         *)
(***************************************************************************)

(* The objects add_all_children visits are those all of whose predecessors *)
(* back to the tag are deeper than it.                                     *)
LEMMA BelowInTree ==
    ASSUME NEW t \in Tree, NEW i \in 1 .. Len(t), NEW k \in 1 .. Len(t)
    PROVE  k \in i + 1 .. EndOfArray(t, i, t[i].depth + 1)
               <=> k > i /\ \A j \in i + 1 .. k : t[j].depth > t[i].depth
<1> DEFINE d   == t[i].depth
           end == EndOfArray(t, i, d + 1)
<1>1. Len(t) \in Nat /\ \A j \in 1 .. Len(t) : t[j].depth \in Nat
  BY TreeElements
<1>2. d \in Nat /\ d + 1 \in Nat
  BY <1>1
<1> HIDE DEF d
<1>3. /\ end \in i .. Len(t)
      /\ \A j \in i + 1 .. end : t[j].depth >= d + 1
      /\ end = Len(t) \/ t[end + 1].depth < d + 1
  BY <1>2, EndOfArrayBounds
<1> HIDE DEF end
<1>4. ASSUME k \in i + 1 .. end
      PROVE  k > i /\ \A j \in i + 1 .. k : t[j].depth > d
  <2>1. ASSUME NEW j \in i + 1 .. k PROVE j \in i + 1 .. end /\ j \in 1 .. Len(t)
    BY <1>1, <1>3, <1>4
  <2>2. k > i
    BY <1>3, <1>4
  <2> QED
    BY <1>1, <1>2, <1>3, <2>1, <2>2
<1>5. ASSUME k > i, \A j \in i + 1 .. k : t[j].depth > d, k > end
      PROVE  FALSE
  <2>1. end + 1 \in i + 1 .. k /\ end + 1 \in 1 .. Len(t) /\ end # Len(t)
    BY <1>1, <1>3, <1>5
  <2> QED
    BY <1>1, <1>2, <1>3, <1>5, <2>1
<1>6. k > i /\ ~ (k > end) => k \in i + 1 .. end
  BY <1>3
<1> QED
  BY <1>4, <1>5, <1>6 DEF end, d

(* In a tree without two tags of one name, the tags add_tag_children finds *)
(* are those the tag stands for, but the tag itself.                       *)
LEMMA KnownTag ==
    ASSUME tree \in Tree, Unique(tree), NEW tag \in Name, get_tag(tree, tag) # 0
    PROVE  add_all_children(tree, get_tag(tree, tag)) \cup {tag} = StandsFor(tag)
<1> DEFINE i == get_tag(tree, tag)
           end == EndOfArray(tree, i, tree[i].depth + 1)
           Below(h, k) == \A j \in h + 1 .. k : tree[j].depth > tree[h].depth
           deeper == {k \in DOMAIN tree : \E h \in 1 .. k - 1 : tree[h].name = tag /\ Below(h, k)}
<1>1. Len(tree) \in Nat /\ DOMAIN tree = 1 .. Len(tree)
  BY LenProperties DEF Tree
<1>2. i \in 1 .. Len(tree) /\ tree[i].name = tag
  BY <1>1, GetTagFinds
<1>3. \A h \in 1 .. Len(tree) : tree[h].name = tag => h = i
  BY <1>1, <1>2 DEF Unique
<1> HIDE DEF i
<1>4. end \in i .. Len(tree)
  <2>1. tree[i].depth + 1 \in Nat
    BY <1>2, TreeElements
  <2> QED
    BY <1>2, <2>1, EndOfArrayBounds
<1>5. \A k \in 1 .. Len(tree) : k \in i + 1 .. end <=> k > i /\ Below(i, k)
  BY <1>2, BelowInTree
<1> HIDE DEF end, Below
<1>6. ASSUME NEW k \in deeper PROVE k \in i + 1 .. end
  <2>1. k \in 1 .. Len(tree)
    BY <1>1
  <2>2. PICK h \in 1 .. k - 1 : tree[h].name = tag /\ Below(h, k)
    OBVIOUS
  <2>3. h = i /\ k > i
    BY <1>1, <1>3, <2>1, <2>2
  <2> QED
    BY <1>5, <2>1, <2>2, <2>3
<1>7. ASSUME NEW k \in i + 1 .. end PROVE k \in deeper
  <2>1. k \in 1 .. Len(tree) /\ i \in 1 .. k - 1
    BY <1>1, <1>2, <1>4
  <2> QED
    BY <1>1, <1>2, <1>5, <2>1
<1>8. deeper = i + 1 .. end
  BY <1>6, <1>7
<1> HIDE DEF deeper
<1>9. StandsFor(tag) = {tag} \cup {tree[k].name : k \in deeper}
  BY DEF StandsFor, deeper, Below
<1>10. add_all_children(tree, i) = {tree[j].name : j \in i + 1 .. end}
  BY DEF add_all_children, end
<1> QED
  BY <1>8, <1>9, <1>10 DEF i

(* A tag that is not in the tree stands for itself.                        *)
LEMMA UnknownTag ==
    ASSUME tree \in Tree, NEW tag, get_tag(tree, tag) = 0
    PROVE  StandsFor(tag) = {tag}
<1>1. Len(tree) \in Nat /\ DOMAIN tree = 1 .. Len(tree)
  BY LenProperties DEF Tree
<1>2. \A i \in 1 .. Len(tree) : tree[i].name # tag
  BY <1>1, GetTagFinds DEF Names
<1>3. \A k \in DOMAIN tree : \A i \in 1 .. k - 1 : i \in 1 .. Len(tree)
  BY <1>1
<1> QED
  BY <1>2, <1>3 DEF StandsFor

(* The members of the expression.                                          *)
LEMMA MembersOfExpression ==
    ASSUME TypeOK
    PROVE  /\ tree \in Tree /\ Unique(tree)
           /\ expression \in Seq(Member)
           /\ \A i \in DOMAIN expression :
                  expression[i].tag \in Name /\ expression[i].sign \in {"+", "_", "?"}
<1>1. tree \in Tree /\ Unique(tree) /\ expression \in Seq(Member)
  BY InputAssumption DEF TypeOK
<1>2. \A i \in DOMAIN expression : expression[i] \in Member
  BY <1>1, ElementOfSeq, LenProperties
<1> QED
  BY <1>1, <1>2 DEF Member

(* The only step that changes what the members stand for is the parser's;  *)
(* the tree, the expression and what is blocked stay, files stay printed,  *)
(* and the attributes change only with another command.                    *)
LEMMA StepKeeps ==
    ASSUME TypeOK, [Next]_vars
    PROVE  /\ UNCHANGED command
           /\ printed \subseteq printed'
           /\ "retag" \notin Events => UNCHANGED attrs
           /\ Parse \/ /\ UNCHANGED expanded
                       /\ phase' \in {"walking", "listing"} => phase \in {"walking", "listing"}
                       /\ phase' # "parsing" \/ UNCHANGED <<phase, str_length, printed>>
<1> USE DEF command, buffer
<1>1. CASE Parse
  BY <1>1 DEF Parse
<1>2. CASE Refuse
  BY <1>2 DEF Refuse
<1>3. ASSUME NEW f \in File, MeasureNothing(f)
      PROVE  /\ UNCHANGED <<command, attrs, expanded>> /\ printed \subseteq printed'
             /\ phase \in {"walking", "listing"} /\ phase' # "parsing"
  BY <1>3 DEF MeasureNothing, Next_file, Judge
<1>4. ASSUME NEW f \in File, MeasureKeys(f) \/ MeasureFails(f)
      PROVE  /\ UNCHANGED <<command, attrs, expanded, printed>>
             /\ phase \in {"walking", "listing"} /\ phase' # "parsing"
  BY <1>4 DEF MeasureKeys, MeasureFails, Next_file
<1>5. CASE ListKeys
  BY <1>5 DEF ListKeys, Judge
<1>6. CASE ListFails
  BY <1>6 DEF ListFails
<1>7. ASSUME NEW d \in Dir, EnterDir(d)
      PROVE  /\ UNCHANGED <<command, attrs, expanded, printed>>
             /\ phase \in {"walking", "listing"} /\ phase' # "parsing"
  BY <1>7 DEF EnterDir
<1>8. CASE LeaveDir
  BY <1>8 DEF LeaveDir
<1>9. CASE Retag
  BY <1>9 DEF Retag
<1>10. CASE UNCHANGED vars
  BY <1>10 DEF vars
<1> QED
  BY <1>1, <1>2, <1>3, <1>4, <1>5, <1>6, <1>7, <1>8, <1>9, <1>10 DEF Next, Search

(* Every step keeps what the members stand for.                            *)
LEMMA ExpandedStep ==
    ASSUME TypeOK, ExpandedInv, [Next]_vars
    PROVE  ExpandedInv'
<1>1. UNCHANGED <<tree, expression>>
  BY StepKeeps DEF command
<1>2. \A i : Found(i)' = Found(i)
  BY <1>1 DEF Found
<1>3. \A tag : StandsFor(tag)' = StandsFor(tag)
  BY <1>1 DEF StandsFor
<1>4. CASE Parse
  <2>1. PICK sets \in [DOMAIN expression -> SUBSET Name] :
            /\ \A i \in DOMAIN expression :
                   \E below \in add_tag_children(i) :
                       sets[i] = below \cup {expression[i].tag}
            /\ expanded' = sets
    BY <1>4 DEF Parse
  <2>2. ASSUME NEW i \in DOMAIN expression
        PROVE  /\ StandsFor(expression[i].tag) \subseteq expanded'[i]
               /\ Found(i) # 0 => expanded'[i] \subseteq StandsFor(expression[i].tag)
    <3>1. PICK below \in add_tag_children(i) : expanded'[i] = below \cup {expression[i].tag}
      BY <2>1
    <3>2. CASE Found(i) # 0
      <4>1. below = add_all_children(tree, Found(i))
        BY <3>2 DEF add_tag_children
      <4>2. add_all_children(tree, Found(i)) \cup {expression[i].tag} = StandsFor(expression[i].tag)
        BY <3>2, KnownTag, MembersOfExpression DEF Found
      <4> QED
        BY <3>1, <4>1, <4>2
    <3>3. CASE Found(i) = 0
      <4>1. StandsFor(expression[i].tag) = {expression[i].tag}
        BY <3>3, UnknownTag, MembersOfExpression DEF Found
      <4> QED
        BY <3>1, <3>3, <4>1
    <3> QED
      BY <3>2, <3>3
  <2> QED
    BY <1>1, <1>2, <1>3, <2>2 DEF ExpandedInv
<1>5. CASE /\ UNCHANGED expanded
           /\ phase' \in {"walking", "listing"} => phase \in {"walking", "listing"}
  BY <1>1, <1>2, <1>3, <1>5 DEF ExpandedInv
<1> QED
  BY <1>4, <1>5, StepKeeps

-----------------------------------------------------------------------------
(***************************************************************************)
(* Judging a file.                                                         *)
(***************************************************************************)

(* What valid_result should return for the keys s.                         *)
Right(s) ==
    /\ IsTagged(s, Len(s))
    /\ HasWanted(s, Len(s))
    /\ \A j \in 1 .. Len(s) : s[j] \notin Unwanted

(* With the length of all the keys in str_length, valid_result is right    *)
(* whatever stops its loop; without unwanted tags it leaves no length.     *)
LEMMA JudgesRight ==
    ASSUME NEW s \in Seq(Attribute), NEW o \in valid_result(s, PrefixSize(s, Len(s)))
    PROVE  /\ o.crash = FALSE
           /\ o.result <=> Right(s)
           /\ o.len \in Nat
           /\ unwanted_tags = {} => o.len = 0
<1> DEFINE n == Len(s)
           len == PrefixSize(s, n)
           Goal == /\ o.crash = FALSE
                   /\ o.result <=> Right(s)
                   /\ o.len \in Nat
                   /\ unwanted_tags = {} => o.len = 0
<1>1. n \in Nat /\ n \in 0 .. n
  BY KeysOfList
<1>2. /\ \A k \in 0 .. n : PrefixSize(s, k) \in Nat
      /\ \A k \in 0 .. n : PrefixSize(s, k) = len => k = n
      /\ \A k \in 0 .. n : PrefixSize(s, k) <= len
  BY <1>1, PrefixSizeGrows
<1>3. \A r, k : /\ Outcome(r, k).crash = FALSE
                /\ Outcome(r, k).result = r
                /\ Outcome(r, k).len = k
  BY DEF Outcome
<1>4. unwanted_tags = {} => Unwanted = {}
  BY DEF Unwanted
<1> HIDE DEF len
<1>5. ASSUME NEW i \in 1 .. n, s[i] \in Unwanted,
             o = Outcome(FALSE, Minus(len, PrefixSize(s, i - 1)))
      PROVE  Goal
  <2>1. i - 1 \in 0 .. n
    BY <1>1
  <2>2. Minus(len, PrefixSize(s, i - 1)) \in Nat
    BY <1>1, <1>2, <2>1 DEF Minus, len
  <2>3. o.crash = FALSE /\ o.result = FALSE /\ o.len \in Nat
    <3>1. /\ o.crash = FALSE /\ o.result = FALSE
          /\ o.len = Minus(len, PrefixSize(s, i - 1))
      BY <1>3, <1>5, Zenon
    <3> QED
      BY <2>2, <3>1, Zenon
  <2>4. ~ Right(s) /\ unwanted_tags # {}
    BY <1>4, <1>5 DEF Right
  <2> QED
    BY <2>3, <2>4
<1>6. ASSUME NEW i \in 1 .. n, s[i] \in Name, HasWanted(s, i), unwanted_tags = {},
             o = Outcome(TRUE, 0)
      PROVE  Goal
  <2>1. \A j \in 1 .. i : j \in 1 .. n
    BY <1>1
  <2>2. HasWanted(s, n)
    BY <1>6, <2>1 DEF HasWanted
  <2>3. IsTagged(s, n)
    BY <1>6 DEF IsTagged
  <2>4. Right(s)
    BY <1>4, <1>6, <2>2, <2>3 DEF Right
  <2>5. o.crash = FALSE /\ o.result = TRUE /\ o.len = 0
    BY <1>3, <1>6
  <2> QED
    BY <2>4, <2>5
<1>7. ASSUME NEW last \in 0 .. n, PrefixSize(s, last) = len,
             \A j \in 1 .. last : s[j] \notin Unwanted,
             o = Outcome(HasWanted(s, last) /\ IsTagged(s, last), 0)
      PROVE  Goal
  <2>1. last = n
    BY <1>2, <1>7
  <2>2. o.crash = FALSE /\ o.result = (HasWanted(s, n) /\ IsTagged(s, n)) /\ o.len = 0
    BY <1>3, <1>7, <2>1
  <2>3. Right(s) <=> HasWanted(s, n) /\ IsTagged(s, n)
    BY <1>7, <2>1 DEF Right
  <2>4. o.result <=> Right(s)
    BY <2>2, <2>3, Zenon
  <2>5. o.crash = FALSE /\ o.len = 0
    BY <2>2, Zenon
  <2> QED
    BY <2>4, <2>5
<1>8. ~ \A k \in 0 .. n : PrefixSize(s, k) # len
  BY <1>1 DEF len
<1>9. o \in valid_result(s, len)
  BY DEF len
<1>10. \/ \E i \in 1 .. n : /\ s[i] \in Unwanted
                            /\ o = Outcome(FALSE, Minus(len, PrefixSize(s, i - 1)))
       \/ \E i \in 1 .. n : /\ s[i] \in Name /\ HasWanted(s, i) /\ unwanted_tags = {}
                            /\ o = Outcome(TRUE, 0)
       \/ \E last \in 0 .. n : /\ PrefixSize(s, last) = len
                               /\ \A j \in 1 .. last : s[j] \notin Unwanted
                               /\ o = Outcome(HasWanted(s, last) /\ IsTagged(s, last), 0)
  <2> HIDE DEF n
  <2> QED
    BY <1>8, <1>9, ValidResultCases DEF n
<1>11. Goal
  <2> HIDE DEF Goal
  <2> QED
    BY <1>5, <1>6, <1>7, <1>10
<1> QED
  BY <1>11

(* A file that satisfies the expression is one that valid_result accepts,  *)
(* if the unwanted tags are known, and the other way round, if the wanted  *)
(* ones are.                                                               *)
LEMMA RightIsSatisfied ==
    ASSUME TypeOK, ExpandedInv, phase \in {"walking", "listing"}, NEW f \in File
    PROVE  /\ Known(unwanted_tags) /\ Satisfies(f) => Right(attrs[f])
           /\ Known(wanted_tags) /\ Right(attrs[f]) => Satisfies(f)
<1> DEFINE s == attrs[f]
<1>1. s \in Seq(Attribute) /\ Len(s) \in Nat /\ DOMAIN s = 1 .. Len(s)
  BY KeysOfFile, KeysOfList
<1> HIDE DEF s
<1>2. Tags(f) = {s[j] : j \in 1 .. Len(s)} \cap Name
  BY <1>1 DEF Tags, Range, s
<1>3. \A i \in DOMAIN expression :
          /\ StandsFor(expression[i].tag) \subseteq expanded[i]
          /\ Found(i) # 0 => expanded[i] \subseteq StandsFor(expression[i].tag)
          /\ expanded[i] \subseteq Name
  BY DEF ExpandedInv, TypeOK
<1>4. wanted_tags \subseteq DOMAIN expression /\ unwanted_tags \subseteq DOMAIN expression
  BY DEF wanted_tags, unwanted_tags
<1>5. ASSUME Known(unwanted_tags), Satisfies(f)
      PROVE  Right(s)
  <2>1. IsTagged(s, Len(s))
    BY <1>2, <1>5 DEF Satisfies, IsTagged
  <2>2. HasWanted(s, Len(s))
    BY <1>2, <1>3, <1>4, <1>5 DEF Satisfies, HasWanted
  <2>3. ASSUME NEW j \in 1 .. Len(s), s[j] \in Unwanted PROVE FALSE
    <3>1. PICK i \in unwanted_tags : s[j] \in expanded[i]
      BY <2>3 DEF Unwanted
    <3>2. Found(i) # 0
      BY <1>5 DEF Known
    <3>3. s[j] \in Tags(f) \cap StandsFor(expression[i].tag)
      BY <1>2, <1>3, <1>4, <3>1, <3>2
    <3> QED
      BY <1>5, <3>3 DEF Satisfies
  <2> QED
    BY <2>1, <2>2, <2>3 DEF Right
<1>6. ASSUME Known(wanted_tags), Right(s)
      PROVE  Satisfies(f)
  <2>1. Tags(f) # {}
    BY <1>2, <1>6 DEF Right, IsTagged
  <2>2. ASSUME NEW i \in wanted_tags
        PROVE  Tags(f) \cap StandsFor(expression[i].tag) # {}
    <3>1. PICK j \in 1 .. Len(s) : s[j] \in expanded[i]
      BY <1>6 DEF Right, HasWanted
    <3>2. Found(i) # 0
      BY <1>6 DEF Known
    <3> QED
      BY <1>2, <1>3, <1>4, <3>1, <3>2
  <2>3. ASSUME NEW i \in unwanted_tags
        PROVE  Tags(f) \cap StandsFor(expression[i].tag) = {}
    <3>1. \A j \in 1 .. Len(s) : s[j] \notin expanded[i]
      BY <1>6 DEF Right, Unwanted
    <3> QED
      BY <1>2, <1>3, <1>4, <3>1
  <2> QED
    BY <2>1, <2>2, <2>3 DEF Satisfies
<1> QED
  BY <1>5, <1>6 DEF s

(* With nothing in str_length, valid_result looks at no key.               *)
LEMMA NothingJudged ==
    ASSUME NEW s \in Seq(Attribute), NEW o \in valid_result(s, 0), unwanted_tags = {}
    PROVE  o.crash = FALSE /\ o.result = FALSE /\ o.len = 0
<1>1. Len(s) \in Nat /\ 0 \in 0 .. Len(s) /\ PrefixSize(s, 0) = 0
  BY KeysOfList, PrefixSizeSteps
<1>2. Unwanted = {}
  BY DEF Unwanted
<1>3. \E last \in 0 .. Len(s) :
          /\ last <= 0
          /\ o = Outcome(HasWanted(s, last) /\ IsTagged(s, last), 0)
  <2>1. ~ \E i \in 1 .. Len(s) : i <= 0
    BY <1>1
  <2> QED
    BY <1>1, <1>2, <2>1, ValidResultCases
<1>4. o = Outcome(HasWanted(s, 0) /\ IsTagged(s, 0), 0)
  BY <1>1, <1>3
<1>5. ~ IsTagged(s, 0)
  BY DEF IsTagged
<1>6. (HasWanted(s, 0) /\ IsTagged(s, 0)) = FALSE
  BY <1>5
<1> QED
  BY <1>4, <1>6 DEF Outcome

(* What a file should be judged by stays as long as its attributes do.     *)
LEMMA JudgedTheSame ==
    ASSUME UNCHANGED command
    PROVE  /\ UNCHANGED <<tree, expression, wanted_tags, unwanted_tags>>
           /\ \A i : Found(i)' = Found(i)
           /\ Known(wanted_tags)' = Known(wanted_tags)
           /\ Known(unwanted_tags)' = Known(unwanted_tags)
           /\ UNCHANGED attrs => \A f : Satisfies(f)' = Satisfies(f)
<1>1. UNCHANGED <<tree, expression>>
  BY DEF command
<1>2. UNCHANGED <<wanted_tags, unwanted_tags>>
  BY <1>1, Zenon DEF wanted_tags, unwanted_tags
<1>3. \A i : Found(i)' = Found(i)
  BY <1>1 DEF Found
<1>4. \A tag : StandsFor(tag)' = StandsFor(tag)
  BY <1>1 DEF StandsFor
<1>5. Known(wanted_tags)' = Known(wanted_tags) /\ Known(unwanted_tags)' = Known(unwanted_tags)
  BY <1>2, <1>3 DEF Known
<1>6. ASSUME UNCHANGED attrs, NEW f
      PROVE  Satisfies(f)' = Satisfies(f)
  <2>1. Tags(f)' = Tags(f)
    BY <1>6 DEF Tags
  <2> QED
    BY <1>1, <1>2, <1>4, <2>1 DEF Satisfies
<1> QED
  BY <1>1, <1>2, <1>3, <1>5, <1>6

(* Room for the keys is made, and no other command takes it.               *)
LEMMA CapacityStep ==
    ASSUME TypeOK, PathInv, CapacityInv, [Next]_vars
    PROVE  CapacityInv'
<1> USE DEF command, buffer
<1> SUFFICES ASSUME "retag" \notin Events, phase' = "listing"
             PROVE  Size(file)' <= str_capacity'
  BY DEF CapacityInv
<1>1. UNCHANGED attrs
  BY StepKeeps
<1>2. \A f : Size(f)' = Size(f)
  BY <1>1 DEF Size
<1>3. (\E f \in File : MeasureKeys(f)) \/ UNCHANGED vars
  <2>1. ~ Parse /\ ~ Refuse /\ ~ ListKeys /\ ~ ListFails /\ ~ LeaveDir /\ ~ Retag
    BY DEF Parse, Refuse, ListKeys, ListFails, LeaveDir, Retag, Judge
  <2>2. \A f \in File : ~ MeasureNothing(f) /\ ~ MeasureFails(f)
    BY DEF MeasureNothing, MeasureFails, Next_file, Judge
  <2>3. \A d \in Dir : ~ EnterDir(d)
    BY DEF EnterDir
  <2> QED
    BY <2>1, <2>2, <2>3 DEF Next, Search
<1>4. ASSUME NEW f \in File, MeasureKeys(f)
      PROVE  Size(file)' <= str_capacity'
  <2>1. Size(f) \in Nat
    BY KeysOfFile
  <2>2. Size(f) <= str_capacity'
    BY <1>4, <2>1 DEF MeasureKeys, TypeOK
  <2>3. file' = f
    BY <1>4 DEF MeasureKeys
  <2>4. Size(file)' = PrefixSize(attrs[f], Len(attrs[f]))
    BY <1>1, <2>3 DEF Size
  <2> QED
    BY <2>2, <2>4 DEF Size
<1>5. CASE UNCHANGED vars
  <2>1. Size(file)' = Size(file)
    BY <1>5 DEF vars, Size
  <2> QED
    BY <1>5, <2>1 DEF vars, CapacityInv
<1> QED
  BY <1>3, <1>4, <1>5

(* An expression without unwanted tags has every file judged on its own.   *)
LEMMA ExactStep ==
    ASSUME TypeOK, PathInv, ExpandedInv, CapacityInv, ExactInv, [Next]_vars
    PROVE  ExactInv'
<1> USE DEF command, buffer
<1>1. UNCHANGED command
  BY StepKeeps
<1> SUFFICES ASSUME "retag" \notin Events, Known(wanted_tags), unwanted_tags = {}
             PROVE  /\ phase' # "crashed"
                    /\ phase' \in {"parsing", "walking"} => str_length' = 0
                    /\ \A f \in printed' : Satisfies(f)'
  BY <1>1, JudgedTheSame DEF ExactInv
<1>2. \A f : Satisfies(f)' = Satisfies(f)
  BY <1>1, StepKeeps, JudgedTheSame
<1>3. /\ phase # "crashed"
      /\ phase \in {"parsing", "walking"} => str_length = 0
      /\ \A f \in printed : Satisfies(f)
  BY DEF ExactInv
<1>4. SUFFICES /\ phase' # "crashed"
               /\ phase' \in {"parsing", "walking"} => str_length' = 0
               /\ \A f \in printed' : Satisfies(f)
  BY <1>2
<1>5. CASE Parse
  BY <1>3, <1>5 DEF Parse
<1>6. CASE Refuse
  <2>1. ASSUME NEW i \in DOMAIN expression, Found(i) = 0, expression[i].sign # "?"
        PROVE  FALSE
    <3>1. expression[i].sign = "+" \/ expression[i].sign = "_"
      BY <2>1, MembersOfExpression, Zenon
    <3>2. i \in wanted_tags \/ i \in unwanted_tags
      BY <3>1, Zenon DEF wanted_tags, unwanted_tags
    <3> QED
      BY <2>1, <3>2 DEF Known
  <2>2. phase' = "refused"
    BY <1>6, <2>1 DEF Refuse
  <2> QED
    BY <1>3, <1>6, <2>2 DEF Refuse
<1>7. ASSUME NEW f \in File, MeasureNothing(f)
      PROVE  phase' = "walking" /\ str_length' = 0 /\ printed' = printed
  <2>1. PICK o \in valid_result(keys, str_length) :
            /\ phase' = IF o.crash THEN "crashed" ELSE "walking"
            /\ printed' = IF o.result THEN printed \cup {f} ELSE printed
            /\ str_length' = o.len
    BY <1>7 DEF MeasureNothing, Judge
  <2>2. str_length = 0 /\ keys \in Seq(Attribute)
    BY <1>3, <1>7 DEF MeasureNothing, Next_file, TypeOK
  <2>3. o.crash = FALSE /\ o.result = FALSE /\ o.len = 0
    BY <2>2, NothingJudged
  <2> QED
    BY <2>1, <2>3
<1>8. CASE ListKeys
  <2>1. file \in File /\ attrs[file] \in Seq(Attribute)
    BY <1>8, KeysOfFile DEF ListKeys, TypeOK
  <2>2. PICK o \in valid_result(keys', Size(file)) :
            /\ phase' = IF o.crash THEN "crashed" ELSE "walking"
            /\ printed' = IF o.result THEN printed \cup {file} ELSE printed
            /\ str_length' = o.len
    BY <1>8 DEF ListKeys, Judge
  <2>3. CASE attrs[file] # << >>
    <3>1. keys' = attrs[file]
      BY <1>8, <2>3 DEF ListKeys
    <3>2. o.crash = FALSE /\ (o.result <=> Right(attrs[file])) /\ o.len = 0
      BY <2>1, <2>2, <3>1, JudgesRight DEF Size
    <3>3. Right(attrs[file]) => Satisfies(file)
      BY <1>8, <2>1, RightIsSatisfied DEF ListKeys
    <3> QED
      BY <1>3, <2>2, <3>2, <3>3
  <2>4. CASE attrs[file] = << >>
    <3>1. keys' = keys /\ keys \in Seq(Attribute)
      BY <1>8, <2>4 DEF ListKeys, TypeOK
    <3>2. Size(file) = 0
      <4>1. Len(attrs[file]) = 0
        BY <2>4
      <4> QED
        BY <2>1, <4>1, PrefixSizeSteps DEF Size
    <3>3. o.crash = FALSE /\ o.result = FALSE /\ o.len = 0
      BY <2>2, <3>1, <3>2, NothingJudged
    <3> QED
      BY <1>3, <2>2, <3>3
  <2> QED
    BY <2>3, <2>4
<1>9. CASE ListFails
  <2>1. file \in File /\ Size(file) \in Nat /\ str_capacity \in Nat
    BY <1>9, KeysOfFile DEF ListFails, TypeOK
  <2> QED
    BY <1>9, <2>1 DEF ListFails, CapacityInv
<1>10. ASSUME NEW f \in File, MeasureKeys(f) \/ MeasureFails(f)
       PROVE  /\ phase' \in {"walking", "listing"} /\ phase = "walking"
              /\ UNCHANGED <<str_length, printed>>
  BY <1>10 DEF MeasureKeys, MeasureFails, Next_file
<1>11. ASSUME NEW d \in Dir, EnterDir(d)
       PROVE  UNCHANGED <<phase, str_length, printed>>
  BY <1>11 DEF EnterDir
<1>12. CASE LeaveDir
  BY <1>3, <1>12 DEF LeaveDir
<1>13. CASE Retag
  BY <1>13 DEF Retag
<1>14. CASE UNCHANGED vars
  BY <1>3, <1>14 DEF vars
<1> QED
  BY <1>3, <1>5, <1>6, <1>7, <1>8, <1>9, <1>10, <1>11, <1>12, <1>13, <1>14 DEF Next, Search

-----------------------------------------------------------------------------
(***************************************************************************)
(* What is done with.                                                      *)
(***************************************************************************)

(* A directory is done with when all its entries are.                      *)
LEMMA AllEntriesDone ==
    ASSUME NEW d \in Dir, NEW k \in 0 .. MaxLinks,
           \A e \in Entries(d) : EntryDone(e, k)
    PROVE  Done(d, k)
<1> DEFINE Pairs == Dir \X (0 .. MaxLinks)
           all == UNION {E \in SUBSET Pairs : Closed(E)}
           D == {<<d, k>>} \cup all
<1>1. ASSUME NEW p \in all, NEW e \in Entries(p[1])
      PROVE  /\ e \in File => Covered(e)
             /\ e \in Dir => <<e, p[2] + LinkStep(e)>> \in all
  <2>1. PICK E \in SUBSET Pairs : Closed(E) /\ p \in E
    OBVIOUS
  <2> QED
    BY <1>1, <2>1 DEF Closed
<1>2. ASSUME NEW e \in Entries(d)
      PROVE  /\ e \in File => Covered(e)
             /\ e \in Dir => <<e, k + LinkStep(e)>> \in all
  <2>1. ASSUME Done(e, k + LinkStep(e)) PROVE <<e, k + LinkStep(e)>> \in all
    BY <2>1 DEF Done
  <2> QED
    BY <2>1 DEF EntryDone
<1>3. D \in SUBSET Pairs
  OBVIOUS
<1> HIDE DEF all
<1>4. ASSUME NEW p \in D, NEW e \in Entries(p[1])
      PROVE  /\ e \in File => Covered(e)
             /\ e \in Dir => <<e, p[2] + LinkStep(e)>> \in D
  <2>1. CASE p \in all
    BY <1>1, <1>4, <2>1
  <2>2. CASE p = <<d, k>>
    <3>1. p[1] = d /\ p[2] = k
      BY <2>2
    <3> QED
      BY <1>2, <1>4, <3>1
  <2> QED
    BY <2>1, <2>2
<1>5. Closed(D)
  BY <1>4 DEF Closed
<1> QED
  BY <1>3, <1>5 DEF Done

(* What is done with remains so.                                           *)
LEMMA DoneRemains ==
    ASSUME TypeOK, [Next]_vars
    PROVE  /\ \A f : Covered(f) => Covered(f)'
           /\ \A d, k : Done(d, k) => Done(d, k)'
           /\ \A e, k : EntryDone(e, k) => EntryDone(e, k)'
<1>1. /\ UNCHANGED command
      /\ printed \subseteq printed'
      /\ "retag" \notin Events => UNCHANGED attrs
  BY StepKeeps
<1>2. \A f : Covered(f) => Covered(f)'
  BY <1>1, JudgedTheSame DEF Covered
<1>3. \A D : Closed(D) => Closed(D)'
  BY <1>2 DEF Closed
<1>4. ASSUME NEW d, NEW k, Done(d, k)
      PROVE  Done(d, k)'
  BY <1>3, <1>4 DEF Done
<1> QED
  BY <1>2, <1>4 DEF EntryDone

(* ... and so does the invariant, while the frames stay.                   *)
LEMMA DoneKept ==
    ASSUME TypeOK, DoneInv, [Next]_vars,
           UNCHANGED frames, phase' = "EXIT_SUCCESS" => phase = "EXIT_SUCCESS"
    PROVE  DoneInv'
<1>1. \A i \in DOMAIN frames : frames[i].success =>
          \A e \in Entries(frames[i].dir) \ frames[i].left :
              \A k : k = frames[i].links => EntryDone(e, k)'
  BY DoneRemains DEF DoneInv
<1>2. phase' = "EXIT_SUCCESS" => Done(Top, 0)'
  BY DoneRemains DEF DoneInv
<1> QED
  BY <1>1, <1>2 DEF DoneInv

(* A file is done with when it has been judged, and when something has     *)
(* failed nothing is claimed of its directory.                             *)
LEMMA DoneAfter ==
    ASSUME TypeOK, DoneInv, [Next]_vars, frames # << >>, phase' # "EXIT_SUCCESS",
           NEW e, NEW b \in BOOLEAN, After(e, b),
           b => e \in File /\ Covered(e)'
    PROVE  DoneInv'
<1> DEFINE n == Len(frames)
<1>1. /\ frames' \in Seq(Frame)
      /\ Len(frames') = n
      /\ \A j \in 1 .. n - 1 : frames'[j] = frames[j]
      /\ frames'[n] = [frames[n] EXCEPT !.left = @ \ {e}, !.success = @ /\ b]
  BY AfterResult DEF TypeOK
<1>2. n \in Nat \ {0} /\ frames[n] \in Frame /\ DOMAIN frames' = 1 .. n /\ DOMAIN frames = 1 .. n
  BY <1>1, FrontFrames, LenProperties DEF TypeOK
<1>3. \A i \in 1 .. n : frames[i].success =>
          \A x \in Entries(frames[i].dir) \ frames[i].left : EntryDone(x, frames[i].links)
  BY <1>2 DEF DoneInv
<1>4. ASSUME NEW i \in 1 .. n - 1, frames'[i].success,
             NEW x \in Entries(frames'[i].dir) \ frames'[i].left
      PROVE  EntryDone(x, frames[i].links)'
  <2>1. frames'[i] = frames[i] /\ i \in 1 .. n
    BY <1>1, <1>2
  <2> QED
    BY <1>3, <1>4, <2>1, DoneRemains
<1>5. ASSUME frames'[n].success, NEW x \in Entries(frames'[n].dir) \ frames'[n].left
      PROVE  \A k : k = frames'[n].links => EntryDone(x, k)'
  <2>1. /\ frames'[n].dir = frames[n].dir
        /\ frames'[n].links = frames[n].links
        /\ frames'[n].left = frames[n].left \ {e}
        /\ frames'[n].success = (frames[n].success /\ b)
    BY <1>1, <1>2 DEF Frame
  <2>2. frames[n].success /\ b
    BY <1>5, <2>1
  <2>3. CASE x = e
    BY <2>2, <2>3, SearchAssumption DEF EntryDone
  <2>4. CASE x # e
    <3>1. x \in Entries(frames[n].dir) \ frames[n].left
      BY <1>5, <2>1, <2>4
    <3>2. EntryDone(x, frames[n].links)
      BY <1>2, <1>3, <2>2, <3>1
    <3> QED
      BY <2>1, <3>2, DoneRemains
  <2> QED
    BY <2>3, <2>4
<1>6. \A i \in 1 .. n : i = n \/ i \in 1 .. n - 1
  <2>1. n \in Nat
    BY <1>2
  <2> HIDE DEF n
  <2> QED
    BY <2>1
<1>7. \A i \in DOMAIN frames' : frames'[i].success =>
          \A x \in Entries(frames'[i].dir) \ frames'[i].left : EntryDone(x, frames[i].links)'
  BY <1>2, <1>4, <1>5, <1>6
<1> QED
  BY <1>7 DEF DoneInv

(* A file whose keys are listed is printed if it should be, and one        *)
(* without any should not be.                                              *)
LEMMA JudgedIsCovered ==
    ASSUME TypeOK, ExpandedInv, [Next]_vars, NEW f \in File,
           \/ MeasureNothing(f)
           \/ ListKeys /\ f = file
    PROVE  Covered(f)'
<1>1. attrs' = attrs /\ phase \in {"walking", "listing"}
  BY DEF MeasureNothing, Next_file, ListKeys
<1>2. UNCHANGED command
  BY StepKeeps
<1> SUFFICES ASSUME Known(unwanted_tags), Satisfies(f)
             PROVE  f \in printed'
  BY <1>1, <1>2, JudgedTheSame DEF Covered
<1>3. attrs[f] # << >> /\ attrs[f] \in Seq(Attribute)
  <2>1. attrs[f] = << >> => Tags(f) = {}
    BY DEF Tags, Range
  <2> QED
    BY <2>1, KeysOfFile DEF Satisfies
<1>4. ListKeys /\ f = file /\ keys' = attrs[f]
  BY <1>3 DEF MeasureNothing, ListKeys
<1>5. PICK o \in valid_result(keys', Size(f)) :
          printed' = IF o.result THEN printed \cup {f} ELSE printed
  BY <1>4 DEF ListKeys, Judge
<1>6. o.result <=> Right(attrs[f])
  BY <1>3, <1>4, <1>5, JudgesRight DEF Size
<1>7. Right(attrs[f])
  BY <1>1, RightIsSatisfied
<1> QED
  BY <1>5, <1>6, <1>7

(* Every step keeps what is claimed of the directories without failures.   *)
LEMMA DoneStep ==
    ASSUME TypeOK, PathInv, ExpandedInv, DoneInv, [Next]_vars
    PROVE  DoneInv'
<1> USE DEF command, buffer
<1> DEFINE n == Len(frames)
<1>1. CASE Parse
  <2>1. CASE UNCHANGED frames /\ phase' = "EXIT_FAILURE"
    BY <2>1, DoneKept
  <2>2. CASE frames' = <<Opened(Top, 0)>> /\ phase' = "walking"
    <3>1. DOMAIN frames' = {1} /\ frames'[1] = Opened(Top, 0)
      BY <2>2
    <3>2. Entries(frames'[1].dir) \ frames'[1].left = {}
      BY <3>1 DEF Opened
    <3> QED
      BY <2>2, <3>1, <3>2 DEF DoneInv
  <2> QED
    BY <1>1, <2>1, <2>2 DEF Parse
<1>2. CASE Refuse \/ Retag \/ UNCHANGED vars
  BY <1>2, DoneKept DEF Refuse, Retag, vars
<1>3. ASSUME NEW f \in File, MeasureNothing(f)
      PROVE  DoneInv'
  <2>1. frames # << >> /\ After(f, TRUE) /\ phase' # "EXIT_SUCCESS"
    BY <1>3 DEF MeasureNothing, Next_file, Judge
  <2>2. Covered(f)'
    BY <1>3, JudgedIsCovered
  <2> QED
    BY <2>1, <2>2, DoneAfter
<1>4. ASSUME NEW f \in File, MeasureKeys(f)
      PROVE  DoneInv'
  BY <1>4, DoneKept DEF MeasureKeys
<1>5. ASSUME NEW f \in File, MeasureFails(f)
      PROVE  DoneInv'
  <2>1. frames # << >> /\ After(f, FALSE) /\ phase' # "EXIT_SUCCESS"
    BY <1>5 DEF MeasureFails, Next_file
  <2> QED
    BY <2>1, DoneAfter
<1>6. CASE ListKeys
  <2>1. frames # << >> /\ file \in File /\ After(file, TRUE) /\ phase' # "EXIT_SUCCESS"
    BY <1>6 DEF ListKeys, Judge, PathInv
  <2> QED
    BY <1>6, <2>1, JudgedIsCovered, DoneAfter
<1>7. CASE ListFails
  <2>1. frames # << >> /\ After(file, FALSE) /\ phase' # "EXIT_SUCCESS"
    BY <1>7 DEF ListFails, PathInv
  <2> QED
    BY <2>1, DoneAfter
<1>8. ASSUME NEW d \in Dir, EnterDir(d)
      PROVE  DoneInv'
  <2>1. CASE frames' = Append(frames, Opened(d, LinksTo(d))) /\ LinksTo(d) <= MaxLinks
    <3>1. LinksTo(d) \in 0 .. MaxLinks
      <4>1. Current.links \in 0 .. MaxLinks
        <5>1. Current \in Frame
          BY <1>8, FrontFrames DEF EnterDir, TypeOK, Current
        <5> QED
          BY <5>1 DEF Frame
      <4> QED
        BY <2>1, <4>1, SearchAssumption DEF LinksTo
    <3>2. /\ frames' \in Seq(Frame)
          /\ Len(frames') = n + 1
          /\ \A j \in 1 .. n : frames'[j] = frames[j]
          /\ frames'[n + 1] = Opened(d, LinksTo(d))
      BY <2>1, <3>1, OpenedFrame, AppendProperties DEF TypeOK
    <3>3. n \in Nat /\ DOMAIN frames = 1 .. n /\ DOMAIN frames' = 1 .. n + 1
      BY <3>2, LenProperties DEF TypeOK
    <3>4. Entries(frames'[n + 1].dir) \ frames'[n + 1].left = {}
      BY <3>2 DEF Opened
    <3>5. ASSUME NEW i \in 1 .. n + 1, frames'[i].success,
                 NEW e \in Entries(frames'[i].dir) \ frames'[i].left
          PROVE  EntryDone(e, frames[i].links)'
      <4>1. i \in 1 .. n /\ frames'[i] = frames[i]
        BY <3>2, <3>3, <3>4, <3>5
      <4>2. EntryDone(e, frames[i].links)
        BY <3>3, <3>5, <4>1 DEF DoneInv
      <4> QED
        BY <4>1, <4>2, DoneRemains
    <3>6. phase' # "EXIT_SUCCESS"
      BY <1>8 DEF EnterDir
    <3> QED
      BY <3>3, <3>5, <3>6 DEF DoneInv
  <2>2. CASE After(d, FALSE)
    <3>1. frames # << >> /\ phase' # "EXIT_SUCCESS"
      BY <1>8 DEF EnterDir
    <3> QED
      BY <2>2, <3>1, DoneAfter
  <2> QED
    BY <1>8, <2>1, <2>2 DEF EnterDir
<1>9. CASE LeaveDir
  <2>1. /\ n \in Nat \ {0} /\ DOMAIN frames = 1 .. n
        /\ Current = frames[n] /\ frames[n] \in Frame /\ frames[n].left = {}
    BY <1>9, FrontFrames, LenProperties DEF LeaveDir, Current, TypeOK
  <2>2. frames[n].success => Done(frames[n].dir, frames[n].links)
    <3>1. SUFFICES ASSUME frames[n].success
                   PROVE  Done(frames[n].dir, frames[n].links)
      OBVIOUS
    <3>2. n \in DOMAIN frames
      BY <2>1
    <3>3. \A e \in Entries(frames[n].dir) : EntryDone(e, frames[n].links)
      BY <2>1, <3>1, <3>2 DEF DoneInv
    <3>4. frames[n].dir \in Dir /\ frames[n].links \in 0 .. MaxLinks
      BY <2>1 DEF Frame
    <3> QED
      BY <3>3, <3>4, AllEntriesDone
  <2>3. CASE n = 1
    <3>1. frames' = << >> /\ (phase' = "EXIT_SUCCESS" => frames[1].success)
      BY <1>9, <2>1, <2>3 DEF LeaveDir
    <3>2. frames[1].dir = Top /\ frames[1].links = 0
      BY <1>9 DEF LeaveDir, PathInv
    <3>3. phase' = "EXIT_SUCCESS" => Done(Top, 0)'
      BY <2>2, <2>3, <3>1, <3>2, DoneRemains
    <3>4. DOMAIN frames' = {}
      BY <3>1
    <3> QED
      BY <3>3, <3>4 DEF DoneInv
  <2>4. CASE n # 1
    <3>1. /\ n > 1
          /\ frames' \in Seq(Frame)
          /\ Len(frames') = n - 1
          /\ \A j \in 1 .. n - 2 : frames'[j] = frames[j]
          /\ frames'[n - 1] = [frames[n - 1] EXCEPT !.left = @ \ {frames[n].dir},
                                                    !.success = frames[n].success]
      BY <1>9, <2>4, LeaveResult DEF TypeOK, LeaveDir
    <3>2. /\ n - 1 \in 1 .. n /\ DOMAIN frames' = 1 .. n - 1
          /\ frames[n - 1] \in Frame
      BY <2>1, <3>1, ElementOfSeq, LenProperties DEF TypeOK
    <3>3. /\ frames'[n - 1].dir = frames[n - 1].dir
          /\ frames'[n - 1].links = frames[n - 1].links
          /\ frames'[n - 1].left = frames[n - 1].left \ {frames[n].dir}
          /\ frames'[n - 1].success = frames[n].success
      BY <3>1, <3>2 DEF Frame
    <3>4. /\ frames[n - 1].success
          /\ frames[n].links = frames[n - 1].links + LinkStep(frames[n].dir)
      <4>1. n - 1 \in 1 .. Len(frames) - 1 /\ (n - 1) + 1 = n
        BY <2>1, <3>1
      <4> QED
        BY <4>1 DEF PathInv
    <3>5. ASSUME NEW i \in 1 .. n - 1, frames'[i].success,
                 NEW e \in Entries(frames'[i].dir) \ frames'[i].left
          PROVE  \A k : k = frames'[i].links => EntryDone(e, k)'
      <4>1. CASE i # n - 1
        <5>1. i \in 1 .. n /\ frames'[i] = frames[i]
          BY <2>1, <3>1, <4>1
        <5>2. EntryDone(e, frames[i].links)
          BY <2>1, <3>5, <5>1 DEF DoneInv
        <5> QED
          BY <5>1, <5>2, DoneRemains
      <4>2. CASE i = n - 1
        <5>1. EntryDone(e, frames[n - 1].links)
          <6>1. CASE e = frames[n].dir
            <7>1. Done(e, frames[n - 1].links + LinkStep(e))
              BY <2>2, <3>3, <3>4, <3>5, <4>2, <6>1
            <7>2. e \notin File
              BY <2>1, <6>1, SearchAssumption DEF Frame
            <7> QED
              BY <7>1, <7>2 DEF EntryDone
          <6>2. CASE e # frames[n].dir
            BY <2>1, <3>2, <3>3, <3>4, <3>5, <4>2, <6>2 DEF DoneInv
          <6> QED
            BY <6>1, <6>2
        <5> QED
          BY <3>3, <4>2, <5>1, DoneRemains
      <4> QED
        BY <4>1, <4>2
    <3>6. phase' # "EXIT_SUCCESS"
      BY <1>9, <2>4 DEF LeaveDir
    <3>7. \A i \in DOMAIN frames' : frames'[i].success =>
              \A e \in Entries(frames'[i].dir) \ frames'[i].left : EntryDone(e, frames[i].links)'
      BY <3>2, <3>5
    <3> QED
      BY <3>6, <3>7 DEF DoneInv
  <2> QED
    BY <2>3, <2>4
<1> QED
  BY <1>1, <1>2, <1>3, <1>4, <1>5, <1>6, <1>7, <1>8, <1>9 DEF Next, Search

-----------------------------------------------------------------------------
(***************************************************************************)
(* The theorems.                                                           *)
(***************************************************************************)

SearchInv ==
    /\ TypeOK
    /\ PathInv
    /\ ExpandedInv
    /\ CapacityInv
    /\ DoneInv
    /\ ExactInv

(* The invariant of every search, whatever other commands do meanwhile.    *)
LEMMA SearchInvHolds == Spec => []SearchInv
<1>1. Init => SearchInv
  BY InitInv DEF SearchInv
<1>2. SearchInv /\ [Next]_vars => SearchInv'
  BY TypeStep, PathStep, ExpandedStep, CapacityStep, DoneStep, ExactStep DEF SearchInv
<1> QED
  BY <1>1, <1>2, PTL DEF Spec

(* Every variable keeps its type; str_length is a length or the -1 of a    *)
(* failed listxattr.                                                       *)
THEOREM TypeCorrect == Spec => []TypeOK
<1>1. SearchInv => TypeOK
  BY DEF SearchInv
<1> QED
  BY <1>1, SearchInvHolds, PTL

(* Once Top is done with, so is every directory that is no link, with no   *)
(* link on the path to it.                                                 *)
LEMMA DirectoriesDone ==
    ASSUME NEW D \in SUBSET (Dir \X (0 .. MaxLinks)), Closed(D), <<Top, 0>> \in D
    PROVE  \A d \in Dir \ Link : <<d, 0>> \in D
<1> DEFINE S == {d \in Dir \ Link : <<d, 0>> \notin D}
<1>1. ASSUME NEW d \in S \ {Top} PROVE Parent[d] \in S
  <2>1. Parent[d] \in Dir \ Link
    BY SearchAssumption
  <2>2. ASSUME <<Parent[d], 0>> \in D PROVE FALSE
    <3>1. d \in Entries(Parent[d])
      BY <2>1 DEF Entries, Resolve
    <3>2. <<d, 0 + LinkStep(d)>> \in D
      BY <2>2, <3>1 DEF Closed
    <3>3. 0 + LinkStep(d) = 0
      BY DEF LinkStep
    <3> QED
      BY <3>2, <3>3
  <2> QED
    BY <2>1, <2>2
<1>2. UpwardClosed(S)
  BY <1>1 DEF UpwardClosed
<1>3. S \in SUBSET Dir /\ Top \notin S
  OBVIOUS
<1> QED
  BY <1>2, <1>3, TreeAssumption

(* A search that succeeds has printed every file that satisfies the        *)
(* expression, wherever in the directory tree it is, if the unwanted tags  *)
(* are known and no other command changes tags meanwhile.                  *)
THEOREM SuccessComplete == "retag" \notin Events => (Spec => []SuccessIsComplete)
<1> SUFFICES ASSUME "retag" \notin Events
             PROVE  Spec => []SuccessIsComplete
  OBVIOUS
<1>1. SearchInv => SuccessIsComplete
  <2> SUFFICES ASSUME SearchInv, Known(unwanted_tags),
                      phase = "EXIT_SUCCESS", NEW f \in File, Satisfies(f)
               PROVE  f \in printed
    BY DEF SuccessIsComplete
  <2>1. PICK D \in SUBSET (Dir \X (0 .. MaxLinks)) : Closed(D) /\ <<Top, 0>> \in D
    BY DEF SearchInv, DoneInv, Done
  <2>2. Parent[f] \in Dir \ Link /\ f # Top
    BY SearchAssumption
  <2>3. <<Parent[f], 0>> \in D /\ f \in Entries(Parent[f])
    BY <2>1, <2>2, DirectoriesDone DEF Entries, Resolve
  <2>4. Covered(f)
    BY <2>1, <2>3 DEF Closed
  <2> QED
    BY <2>4 DEF Covered
<1> QED
  BY <1>1, SearchInvHolds, PTL

(* A search without "_" prints nothing that does not satisfy the           *)
(* expression, and its loops stay inside the keys of the file they look    *)
(* at, if the wanted tags are known and no other command changes tags      *)
(* meanwhile.                                                              *)
THEOREM PositiveSearchExact == "retag" \notin Events => (Spec => []PositiveSearchIsExact)
<1> SUFFICES ASSUME "retag" \notin Events
             PROVE  Spec => []PositiveSearchIsExact
  OBVIOUS
<1>1. SearchInv => PositiveSearchIsExact
  BY DEF SearchInv, ExactInv, PositiveSearchIsExact, TypeOK
<1> QED
  BY <1>1, SearchInvHolds, PTL

(* The directories on the way round a loop are done with at every number   *)
(* of links, or at none.                                                   *)
LEMMA LoopNeverDone ==
    ASSUME NEW l \in Link, Target[l] \in Above(Parent[l]),
           NEW D \in SUBSET (Dir \X (0 .. MaxLinks)), Closed(D), <<Top, 0>> \in D
    PROVE  FALSE
<1> DEFINE p == Parent[l]
           Open(e, k) == \E x \in Entries(e) \cap Dir : <<x, k + LinkStep(x)>> \notin D
           Ends == {k \in 0 .. MaxLinks + 1 : Open(p, k)}
           least == Min(Ends)
<1>1. l \in Dir /\ l # Top /\ p \in Dir \ Link /\ Target[l] \in Dir \ Link /\ l \in Entries(p)
  <2>1. l \in Dir /\ l # Top /\ p \in Dir \ Link /\ Target[l] \in Dir \ Link
    BY SearchAssumption
  <2> QED
    BY <2>1 DEF Entries, Resolve
<1>2. MaxLinks \in Nat
  BY SearchAssumption
<1>3. \A e, k : <<e, k>> \in D => ~ Open(e, k)
  <2>1. \A e, k : <<e, k>>[1] = e /\ <<e, k>>[2] = k
    OBVIOUS
  <2> QED
    BY <2>1 DEF Closed
<1>4. Open(p, MaxLinks)
  <2>1. <<l, MaxLinks + 1>> \notin D
    BY <1>2
  <2> QED
    BY <1>1, <2>1 DEF LinkStep
<1>5. MaxLinks \in Ends
  BY <1>2, <1>4
<1>6. least \in Ends /\ \A k \in Ends : least <= k
  <2>1. Ends \subseteq Nat /\ Ends # {}
    BY <1>5
  <2> HIDE DEF Ends
  <2> QED
    BY <2>1, MinIsLeast
<1> HIDE DEF least
<1>7. least \in Nat /\ Open(p, least)
  BY <1>6
<1>8. CASE least = 0
  <2>1. <<p, 0>> \in D
    BY <1>1, DirectoriesDone
  <2> QED
    BY <1>3, <1>7, <1>8, <2>1
<1>9. CASE least # 0
  <2> DEFINE before == least - 1
  <2>1. before \in 0 .. MaxLinks + 1 /\ before + 1 = least /\ ~ (least <= before)
    BY <1>2, <1>6, <1>9
  <2>2. ~ Open(p, before)
    BY <1>6, <2>1
  <2>3. <<l, least>> \in D
    BY <1>1, <2>1, <2>2 DEF LinkStep
  <2>4. ~ Open(Target[l], least)
    <3>1. Entries(l) = Entries(Target[l])
      BY <1>1 DEF Entries, Resolve
    <3> QED
      BY <1>3, <2>3, <3>1
  <2> DEFINE S == {e \in Dir \ Link : Open(e, least)}
  <2>5. ASSUME NEW e \in S \ {Top} PROVE Parent[e] \in S
    <3>1. Parent[e] \in Dir \ Link /\ e \in Entries(Parent[e])
      <4>1. Parent[e] \in Dir \ Link
        BY SearchAssumption
      <4> QED
        BY <4>1 DEF Entries, Resolve
    <3>2. ASSUME ~ Open(Parent[e], least) PROVE FALSE
      <4>1. <<e, least + LinkStep(e)>> \in D
        BY <3>1, <3>2
      <4>2. least + LinkStep(e) = least
        BY <1>7 DEF LinkStep
      <4> QED
        BY <1>3, <4>1, <4>2
    <3> QED
      BY <3>1, <3>2
  <2>6. UpwardClosed(S)
    BY <2>5 DEF UpwardClosed
  <2>7. p \in S /\ S \in SUBSET Dir
    BY <1>1, <1>7
  <2>8. Target[l] \in S
    <3> HIDE DEF S
    <3> QED
      BY <2>6, <2>7 DEF Above
  <2> QED
    BY <2>4, <2>8
<1> QED
  BY <1>8, <1>9

(* A search that meets a link back to a directory it is in fails, whatever *)
(* other commands do meanwhile.                                            *)
THEOREM LoopsFail == Spec => []LoopFails
<1>1. SearchInv => LoopFails
  <2> SUFFICES ASSUME SearchInv, phase = "EXIT_SUCCESS",
                      NEW l \in Link, Target[l] \in Above(Parent[l])
               PROVE  FALSE
    BY DEF LoopFails
  <2>1. PICK D \in SUBSET (Dir \X (0 .. MaxLinks)) : Closed(D) /\ <<Top, 0>> \in D
    BY DEF SearchInv, DoneInv, Done
  <2> QED
    BY <2>1, LoopNeverDone
<1> QED
  BY <1>1, SearchInvHolds, PTL

(* A file with attributes is printed if it satisfies the expression when   *)
(* its keys are listed, and only then, whatever other commands do          *)
(* meanwhile, if the tags of the expression are known.                     *)
THEOREM FilesJudgedRight == Spec => JudgedRight
<1> DEFINE Step ==
        Known(wanted_tags) /\ Known(unwanted_tags) =>
          (phase = "listing" /\ attrs[file] # << >> /\ phase' = "walking" /\ str_length' # -1
              => (file \in printed' <=> file \in printed \/ Satisfies(file)))
<1>1. SearchInv /\ [Next]_vars => [Step]_vars
  <2> SUFFICES ASSUME SearchInv, Next, Known(wanted_tags), Known(unwanted_tags),
                      phase = "listing", attrs[file] # << >>,
                      phase' = "walking", str_length' # -1
               PROVE  file \in printed' <=> file \in printed \/ Satisfies(file)
    OBVIOUS
  <2>1. TypeOK /\ ExpandedInv /\ file \in File
    BY DEF SearchInv, TypeOK
  <2>2. ListKeys
    <3>1. ~ Parse /\ ~ Refuse /\ ~ ListFails /\ ~ LeaveDir /\ ~ Retag
      BY DEF Parse, Refuse, ListFails, LeaveDir, Retag
    <3>2. \A f \in File : ~ MeasureNothing(f) /\ ~ MeasureKeys(f) /\ ~ MeasureFails(f)
      BY DEF MeasureNothing, MeasureKeys, MeasureFails, Next_file
    <3>3. \A d \in Dir : ~ EnterDir(d)
      BY DEF EnterDir
    <3> QED
      BY <3>1, <3>2, <3>3 DEF Next, Search
  <2>3. keys' = attrs[file] /\ attrs[file] \in Seq(Attribute)
    BY <2>1, <2>2, KeysOfFile DEF ListKeys
  <2>4. PICK o \in valid_result(keys', Size(file)) :
            printed' = IF o.result THEN printed \cup {file} ELSE printed
    BY <2>2 DEF ListKeys, Judge
  <2>5. o.result <=> Right(attrs[file])
    BY <2>3, <2>4, JudgesRight DEF Size
  <2>6. Right(attrs[file]) <=> Satisfies(file)
    BY <2>1, RightIsSatisfied
  <2> QED
    BY <2>4, <2>5, <2>6
<1>2. [][Step]_vars => JudgedRight
  BY DEF JudgedRight
<1> QED
  BY <1>1, <1>2, SearchInvHolds, PTL DEF Spec

=============================================================================
