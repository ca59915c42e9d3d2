----------------------- MODULE ManageTagSoloTheorems -----------------------
(***************************************************************************)
(* One process of manage-tag after the other implements TagEdits, for all  *)
(* names, command lines, faults and nesting limits.                        *)
(***************************************************************************)
EXTENDS ManageTagSolo, ManageTagTheorems

(***************************************************************************)
(* The operators of TagTree that TagEdits uses are those that ManageTag    *)
(* uses: the instance has copies of them.                                  *)
(***************************************************************************)

(* get_tag finds the same tag.                                             *)
LEMMA SameLookup == \A t, tag : Edits!get_tag(t, tag) = get_tag(t, tag)
BY DEF get_tag, Edits!get_tag, SelectInSeq, Edits!SelectInSeq, Min, Edits!Min

(* add_tag appends the same tag.                                           *)
LEMMA SameAdd == \A t, tag, a : Edits!add_tag(t, tag, a) = add_tag(t, tag, a)
BY DEF add_tag, Edits!add_tag, new_tag, Edits!new_tag

(* add_to_parent puts the new tag at the same place.                       *)
LEMMA SameAddChild ==
    \A t, i, tag, a : Edits!add_to_parent(t, i, tag, a) = add_to_parent(t, i, tag, a)
BY DEF add_to_parent, Edits!add_to_parent, new_tag, Edits!new_tag,
       EndOfArray, Edits!EndOfArray, Min, Edits!Min

(* remove_tag leaves the same tree.                                        *)
LEMMA SameRemove == \A t, i : Edits!remove_tag(t, i) = remove_tag(t, i)
BY DEF remove_tag, Edits!remove_tag, Lift, Edits!Lift,
       EndOfArray, Edits!EndOfArray, Min, Edits!Min

-----------------------------------------------------------------------------
(***************************************************************************)
(* The inductive invariant: a process that has loaded the tree still has   *)
(* the tree of the file, which the file still holds whole, and one that    *)
(* writes has left the file empty.  It is what a second process destroys.  *)
(***************************************************************************)

Current ==
    \A p \in Proc :
        /\ pc[p] = "parsed" => Readable /\ root[p] = disk.tree
        /\ pc[p] = "writing" => disk = Empty

SoloInv == TypeOK /\ Current

(* No process but one.                                                     *)
LEMMA OnlyOne == \A p, q \in Proc : p = q
BY SoloAssumption

(* An empty file cannot be loaded.                                         *)
LEMMA EmptyIsUnreadable == disk = Empty => ~ Readable
<1> SUFFICES ASSUME disk = Empty
             PROVE  ~ Readable
  OBVIOUS
<1>1. disk.size = 0 /\ disk.tree = Skeleton /\ disk \in Content /\ TextSize(disk.tree) = 1
  BY SkeletonIsTree DEF Empty, Content, TextSize, Skeleton
<1>2. ~ (disk.size >= TextSize(disk.tree))
  BY <1>1
<1> QED
  BY <1>1, <1>2, LoadSucceeds DEF Readable

(* What TagEdits sees while a process writes ...                           *)
LEMMA SeenWriting ==
    ASSUME NEW p \in Proc, pc[p] = "writing"
    PROVE  ~ Lost /\ Effective = root[p]
<1>1. Writing
  BY DEF Writing
<1>2. (CHOOSE q \in Proc : pc[q] = "writing") = p
  BY OnlyOne
<1> QED
  BY <1>1, <1>2 DEF Lost, Effective

(* ... and while none does.                                                *)
LEMMA SeenOnDisk ==
    ASSUME NEW p \in Proc, pc[p] # "writing"
    PROVE  /\ Lost <=> ~ Readable
           /\ Effective = IF Readable THEN disk.tree ELSE Skeleton
<1>1. ~ Writing
  BY OnlyOne DEF Writing
<1> QED
  BY <1>1 DEF Lost, Effective

(* The same after a step.                                                  *)
LEMMA SeenWritingNext ==
    ASSUME NEW p \in Proc, pc'[p] = "writing"
    PROVE  ~ Lost' /\ Effective' = root'[p]
<1>1. Writing'
  BY DEF Writing
<1>2. (CHOOSE q \in Proc : pc'[q] = "writing") = p
  BY OnlyOne
<1> QED
  BY <1>1, <1>2 DEF Lost, Effective

(* The same after a step that ends without a process that is about to      *)
(* write.                                                                  *)
LEMMA SeenOnDiskNext ==
    ASSUME NEW p \in Proc, pc'[p] # "writing"
    PROVE  /\ Lost' <=> ~ Readable'
           /\ Effective' = IF Readable' THEN disk'.tree ELSE Skeleton
<1>1. ~ Writing'
  BY OnlyOne DEF Writing
<1> QED
  BY <1>1 DEF Lost, Effective

(* Lost is TRUE or FALSE, before and after.                                *)
LEMMA SameTruth == (Lost' <=> Lost) => Lost' = Lost
BY DEF Lost

(* A step that neither writes the file nor starts or ends a write is not   *)
(* seen.                                                                   *)
LEMMA Unseen ==
    ASSUME NEW p \in Proc, pc[p] # "writing", pc'[p] # "writing", disk' = disk
    PROVE  UNCHANGED Edits!editVars
<1>1. Readable' <=> Readable
  BY DEF Readable
<1>2. (Lost' <=> Lost) /\ Effective' = Effective
  BY <1>1, SeenOnDisk, SeenOnDiskNext
<1> QED
  BY <1>2, SameTruth DEF Edits!editVars

(* A write that leaves a file that cannot be loaded is Lose.               *)
LEMMA LostWrite ==
    ASSUME NEW p \in Proc, pc[p] = "writing", pc'[p] # "writing", ~ Readable'
    PROVE  Edits!Lose
BY SeenWriting, SeenOnDiskNext DEF Edits!Lose, Edits!Skeleton, Skeleton

(* A command takes effect when it truncates the file, or not at all.       *)
LEMMA SaveIsSeen ==
    ASSUME SoloInv, NEW p \in Proc, pc[p] = "parsed", NEW t, Save(p, t)
    PROVE  \/ UNCHANGED Edits!editVars
           \/ ~ Lost /\ ~ Lost' /\ Effective = root[p] /\ Effective' = t
<1>1. CASE TruncateConfig(p, t) /\ pc' = [pc EXCEPT ![p] = "writing"]
  <2>1. pc'[p] = "writing" /\ root'[p] = t
    BY <1>1 DEF TruncateConfig, SoloInv, TypeOK, ConfigTypeOK
  <2>2. ~ Lost' /\ Effective' = t
    BY <2>1, SeenWritingNext
  <2>3. ~ Lost /\ Effective = root[p]
    BY SeenOnDisk DEF SoloInv, Current
  <2> QED
    BY <2>2, <2>3
<1>2. CASE Exit(p, "EXIT_SUCCESS") /\ UNCHANGED disk
  BY <1>2, Unseen DEF Exit, SoloInv, TypeOK
<1> QED
  BY <1>1, <1>2 DEF Save

-----------------------------------------------------------------------------

(* The end of a process.                                                   *)
LEMMA ExitKeepsCurrent ==
    ASSUME TypeOK, NEW p \in Proc, NEW s, Exit(p, s)
    PROVE  Current'
<1>1. pc'[p] = "exited"
  BY DEF Exit, TypeOK
<1> QED
  BY <1>1, OnlyOne DEF Current

(* The truncation, or the end of the process without it.                   *)
LEMMA SaveKeepsCurrent ==
    ASSUME TypeOK, NEW p \in Proc, NEW t, Save(p, t)
    PROVE  Current'
<1>1. CASE TruncateConfig(p, t) /\ pc' = [pc EXCEPT ![p] = "writing"]
  <2>1. pc'[p] = "writing" /\ disk' = Empty
    BY <1>1 DEF TruncateConfig, TypeOK
  <2> QED
    BY <2>1, OnlyOne DEF Current, Empty, Skeleton
<1>2. CASE Exit(p, "EXIT_SUCCESS")
  BY <1>2, ExitKeepsCurrent
<1> QED
  BY <1>1, <1>2 DEF Save

(* Every step of manage-tag keeps the invariant.                           *)
LEMMA SoloStep == SoloInv /\ [Next]_vars => SoloInv'
<1> SUFFICES ASSUME SoloInv, [Next]_vars
             PROVE  SoloInv'
  OBVIOUS
<1>1. TypeOK /\ TypeOK'
  BY TypeStep DEF SoloInv
<1>2. ASSUME NEW p \in Proc, NEW c \in Command, Start(p, c)
      PROVE  Current'
  <2>1. pc'[p] = "parsing"
    BY <1>1, <1>2 DEF Start, TypeOK
  <2> QED
    BY <2>1, OnlyOne DEF Current
<1>3. ASSUME NEW p \in Proc, Load(p)
      PROVE  Current'
  <2>1. pc'[p] = "parsed" /\ root'[p] = disk'.tree /\ disk' = disk
    BY <1>1, <1>3 DEF Load, ParseConfig, TypeOK, ConfigTypeOK
  <2>2. Readable'
    BY <1>1, <1>3, <2>1, LoadMeansReadable DEF Load, ParseConfig, Readable
  <2> QED
    BY <2>1, <2>2, OnlyOne DEF Current
<1>4. ASSUME NEW p \in Proc,
             LoadFails(p) \/ ListTags(p) \/ Refuse(p) \/ Flush(p) \/ FlushFails(p) \/ Kill(p)
      PROVE  Current'
  <2>1. \E s : Exit(p, s)
    BY <1>4 DEF LoadFails, ListTags, Refuse, Flush, FlushFails, Kill
  <2> QED
    BY <1>1, <2>1, ExitKeepsCurrent
<1>5. ASSUME NEW p \in Proc, AddTag(p) \/ AddToParent(p) \/ RemoveTag(p)
      PROVE  Current'
  <2>1. \E t : Save(p, t)
    BY <1>5 DEF AddTag, AddToParent, RemoveTag
  <2> QED
    BY <1>1, <2>1, SaveKeepsCurrent
<1>6. ASSUME UNCHANGED vars
      PROVE  Current'
  BY <1>6 DEF SoloInv, Current, Readable, vars
<1>7. Current'
  BY <1>2, <1>3, <1>4, <1>5, <1>6 DEF Next, Step
<1> QED
  BY <1>1, <1>7 DEF SoloInv

(* A process that has loaded the file has the tree of the file, always.    *)
LEMMA SoloInvHolds == Spec => []SoloInv
<1>1. Init => SoloInv
  BY TypeInit DEF Init, SoloInv, Current
<1> QED
  BY <1>1, SoloStep, PTL DEF Spec

-----------------------------------------------------------------------------
(***************************************************************************)
(* Each action is a step of TagEdits, or is not seen.                      *)
(***************************************************************************)

(* The installed file is the skeleton, and can be loaded.                  *)
LEMMA InitRefines == Init => Edits!Init
<1> SUFFICES ASSUME Init
             PROVE  Edits!Init
  OBVIOUS
<1>1. disk \in Content /\ disk.tree = Skeleton /\ disk.size = TextSize(Skeleton)
  BY SkeletonIsTree DEF Init, ConfigInit, Content
<1>2. CanBeParsed(Skeleton)
  BY DEF CanBeParsed, Skeleton
<1>3. Readable
  BY <1>1, <1>2, SkeletonIsTree, LoadSucceeds DEF Readable, Content
<1>4. ~ Writing
  BY DEF Init, Writing
<1> QED
  BY <1>1, <1>3, <1>4 DEF Lost, Effective, Edits!Init, Edits!Skeleton, Skeleton

(* manage-tag -a and -A.                                                   *)
LEMMA AddTagRefines ==
    ASSUME SoloInv, NEW p \in Proc, AddTag(p)
    PROVE  [Edits!Next]_Edits!editVars
<1> DEFINE tag == cmd[p].tag
           a   == cmd[p].assignable
<1>1. tag \in Name /\ a \in BOOLEAN /\ ~ Has(p, tag)
  BY CommandArguments DEF AddTag, SoloInv
<1>2. pc[p] = "parsed" /\ Save(p, add_tag(root[p], tag, a))
  BY DEF AddTag, Runs
<1> HIDE DEF tag, a
<1>3. CASE ~ Lost /\ ~ Lost' /\ Effective = root[p] /\ Effective' = add_tag(root[p], tag, a)
  <2>1. Edits!Add(tag, a)
    BY <1>1, <1>3, SameLookup, SameAdd DEF Edits!Add, Edits!Has, Has, Lost
  <2> QED
    BY <1>1, <2>1 DEF Edits!Next
<1> QED
  BY <1>2, <1>3, SaveIsSeen

(* manage-tag -p and -P.                                                   *)
LEMMA AddToParentRefines ==
    ASSUME SoloInv, NEW p \in Proc, AddToParent(p)
    PROVE  [Edits!Next]_Edits!editVars
<1> DEFINE parent == cmd[p].parent
           tag    == cmd[p].tag
           a      == cmd[p].assignable
           new    == add_to_parent(root[p], get_tag(root[p], parent), tag, a)
<1>1. parent \in Name /\ tag \in Name /\ a \in BOOLEAN /\ Has(p, parent) /\ ~ Has(p, tag)
  BY CommandArguments DEF AddToParent, SoloInv
<1>2. pc[p] = "parsed" /\ Save(p, new)
  BY DEF AddToParent, Runs
<1> HIDE DEF parent, tag, a
<1>3. CASE ~ Lost /\ ~ Lost' /\ Effective = root[p] /\ Effective' = new
  <2>1. Edits!AddChild(parent, tag, a)
    BY <1>1, <1>3, SameLookup, SameAddChild DEF Edits!AddChild, Edits!Has, Has, Lost
  <2> QED
    BY <1>1, <2>1 DEF Edits!Next
<1> QED
  BY <1>2, <1>3, SaveIsSeen

(* manage-tag -r.                                                          *)
LEMMA RemoveTagRefines ==
    ASSUME SoloInv, NEW p \in Proc, RemoveTag(p)
    PROVE  [Edits!Next]_Edits!editVars
<1> DEFINE tag == cmd[p].tag
           new == remove_tag(root[p], get_tag(root[p], tag))
<1>1. tag \in Name /\ Has(p, tag)
  BY CommandArguments DEF RemoveTag, SoloInv
<1>2. pc[p] = "parsed" /\ Save(p, new)
  BY DEF RemoveTag, Runs
<1> HIDE DEF tag
<1>3. CASE ~ Lost /\ ~ Lost' /\ Effective = root[p] /\ Effective' = new
  <2>1. Edits!Delete(tag)
    BY <1>1, <1>3, SameLookup, SameRemove DEF Edits!Delete, Edits!Has, Has, Lost
  <2> QED
    BY <1>1, <2>1 DEF Edits!Next
<1> QED
  BY <1>2, <1>3, SaveIsSeen

(* The write puts the tree that TagEdits already sees on the disk, unless  *)
(* that tree is nested too deep to be loaded again.                        *)
LEMMA FlushRefines ==
    ASSUME SoloInv, NEW p \in Proc, Flush(p)
    PROVE  [Edits!Next]_Edits!editVars
<1>1. pc[p] = "writing" /\ pc'[p] # "writing"
  BY DEF Flush, Exit, SoloInv, TypeOK
<1>2. disk'.tree = root[p]
  BY OverwriteIsContent DEF Flush, SoloInv, TypeOK, ConfigTypeOK
<1>3. CASE Readable'
  <2>1. (Lost' <=> Lost) /\ Effective' = Effective
    BY <1>1, <1>2, <1>3, SeenWriting, SeenOnDiskNext
  <2> QED
    BY <2>1, SameTruth DEF Edits!editVars
<1>4. CASE ~ Readable'
  BY <1>1, <1>4, LostWrite DEF Edits!Next
<1> QED
  BY <1>3, <1>4

(* A process that dies before its write, or whose write fails, has emptied *)
(* the file: the tree is lost.                                             *)
LEMMA FailureRefines ==
    ASSUME SoloInv, NEW p \in Proc, FlushFails(p) \/ Kill(p)
    PROVE  [Edits!Next]_Edits!editVars
<1>1. pc'[p] # "writing" /\ disk' = disk
  BY DEF FlushFails, Kill, Exit, SoloInv, TypeOK
<1>2. CASE pc[p] = "writing"
  <2>1. ~ Readable'
    BY <1>1, <1>2, EmptyIsUnreadable DEF SoloInv, Current, Readable
  <2> QED
    BY <1>1, <1>2, <2>1, LostWrite DEF Edits!Next
<1>3. CASE pc[p] # "writing"
  BY <1>1, <1>3, Unseen
<1> QED
  BY <1>2, <1>3

(* Nothing else is seen.                                                   *)
LEMMA ReadingRefines ==
    ASSUME SoloInv, NEW p \in Proc,
           \/ \E c \in Command : Start(p, c)
           \/ Load(p) \/ LoadFails(p) \/ ListTags(p) \/ Refuse(p)
    PROVE  UNCHANGED Edits!editVars
<1>1. pc[p] # "writing" /\ pc'[p] # "writing" /\ disk' = disk
  BY DEF Start, MeasureConfig, Load, ParseConfig, LoadFails, ListTags, Refuse, Runs,
         Exit, SoloInv, TypeOK
<1> QED
  BY <1>1, Unseen

(* Every step of manage-tag is an edit, the loss of the file, or none to   *)
(* those who look at the file only.                                        *)
LEMMA StepRefines == SoloInv /\ [Next]_vars => [Edits!Next]_Edits!editVars
<1> SUFFICES ASSUME SoloInv, [Next]_vars
             PROVE  [Edits!Next]_Edits!editVars
  OBVIOUS
<1>1. CASE UNCHANGED vars
  BY <1>1 DEF vars, Edits!editVars, Lost, Effective, Writing, Readable
<1> QED
  BY <1>1, AddTagRefines, AddToParentRefines, RemoveTagRefines, FlushRefines,
     FailureRefines, ReadingRefines
     DEF Next, Step

(* One process at a time, whatever it is asked, whatever kills it and      *)
(* whatever write fails: the tree changes by exactly the command that was  *)
(* asked for, at once, or is lost as a whole.                              *)
THEOREM EditsRefined == Spec => ImplementsEdits
BY InitRefines, StepRefines, SoloInvHolds, PTL DEF Spec, ImplementsEdits, Edits!Spec

=============================================================================
