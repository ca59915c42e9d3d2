------------------------- MODULE ManageTagTheorems -------------------------
(***************************************************************************)
(* What ManageTag guarantees for every set of processes, names, command    *)
(* lines and faults.                                                       *)
(***************************************************************************)
EXTENDS ManageTag, TagTreeTheorems

(* The empty tree, and its text.                                           *)
LEMMA SkeletonIsTree ==
    /\ Skeleton \in Tree
    /\ TextSize(Skeleton) \in Nat
    /\ Unique(Skeleton)
    /\ WellNested(Skeleton)
BY DEF Skeleton, Tree, TextSize, Unique, WellNested

(* Everything a process does to the tree it has in memory when it ends,    *)
(* and to no other variable of another process.                            *)
LEMMA ExitKeepsTypes ==
    ASSUME TypeOK, NEW p \in Proc,
           NEW s \in {"none", "EXIT_SUCCESS", "EXIT_FAILURE", "killed"},
           Exit(p, s), disk' \in Content
    PROVE  TypeOK'
BY SkeletonIsTree DEF TypeOK, ConfigTypeOK, Exit, FreeConfig

(* The tree a command makes.                                               *)
LEMMA SaveKeepsTypes ==
    ASSUME TypeOK, NEW p \in Proc, NEW t \in Tree, Save(p, t)
    PROVE  TypeOK'
<1>1. CASE TruncateConfig(p, t) /\ pc' = [pc EXCEPT ![p] = "writing"]
           /\ UNCHANGED <<cmd, status>>
  BY <1>1, SkeletonIsTree DEF TypeOK, ConfigTypeOK, TruncateConfig, Empty, Content
<1>2. CASE Exit(p, "EXIT_SUCCESS") /\ UNCHANGED disk
  BY <1>2, ExitKeepsTypes DEF TypeOK, ConfigTypeOK
<1> QED
  BY <1>1, <1>2 DEF Save

(* The tag arguments of the command lines are names.                       *)
LEMMA CommandArguments ==
    ASSUME TypeOK, NEW p \in Proc
    PROVE  /\ Runs(p, "a") => cmd[p].tag \in Name /\ cmd[p].assignable \in BOOLEAN
           /\ Runs(p, "p") => /\ cmd[p].tag \in Name /\ cmd[p].assignable \in BOOLEAN
                              /\ cmd[p].parent \in Name
           /\ Runs(p, "r") => cmd[p].tag \in Name
           /\ root[p] \in Tree
<1>1. cmd[p] \in CommandLines \cup {NoCommand}
  BY CommandAssumption DEF TypeOK
<1> QED
  BY <1>1 DEF TypeOK, ConfigTypeOK, Runs, CommandLines, NoCommand

(* A tag that get_tag finds has a position in the tree.                    *)
LEMMA HasPosition ==
    ASSUME NEW p \in Proc, NEW tag, root[p] \in Tree, Has(p, tag)
    PROVE  get_tag(root[p], tag) \in 1 .. Len(root[p])
BY GetTagFinds, TreeElements DEF Has

(* A file that is written over is as long as the longer of the two texts.  *)
LEMMA OverwriteIsContent ==
    ASSUME NEW c \in Content, NEW t \in Tree
    PROVE  /\ Overwrite(c, t) \in Content
           /\ Overwrite(c, t).tree = t
           /\ Overwrite(c, t).size >= TextSize(t)
           /\ TextSize(t) \in Nat /\ TextSize(t) > 0
<1> DEFINE S == {c.size, TextSize(t)}
<1>1. TextSize(t) \in Nat /\ TextSize(t) > 0 /\ c.size \in Nat
  BY TreeElements DEF TextSize, Content
<1>2. \E x \in S : \A y \in S : x >= y
  BY <1>1
<1>3. Max(S) \in S /\ \A y \in S : Max(S) >= y
  BY <1>2 DEF Max
<1> QED
  BY <1>1, <1>3 DEF Overwrite, Content

-----------------------------------------------------------------------------

(* The types hold at first ...                                             *)
LEMMA TypeInit == Init => TypeOK
BY SkeletonIsTree
   DEF Init, ConfigInit, TypeOK, ConfigTypeOK, Content

(* ... and after every step.                                               *)
LEMMA TypeStep == TypeOK /\ [Next]_vars => TypeOK'
<1> SUFFICES ASSUME TypeOK, [Next]_vars
             PROVE  TypeOK'
  OBVIOUS
<1>1. ASSUME NEW p \in Proc, NEW c \in Command, Start(p, c)
      PROVE  TypeOK'
  BY <1>1 DEF TypeOK, ConfigTypeOK, Content, Start, MeasureConfig
<1>2. ASSUME NEW p \in Proc, Load(p)
      PROVE  TypeOK'
  BY <1>2 DEF TypeOK, ConfigTypeOK, Content, Load, ParseConfig
<1>3. ASSUME NEW p \in Proc, LoadFails(p)
      PROVE  TypeOK'
  <2>1. PICK s \in {"EXIT_FAILURE", "killed"} : Exit(p, s)
    BY <1>3 DEF LoadFails
  <2> QED
    BY <1>3, <2>1, ExitKeepsTypes DEF LoadFails, TypeOK, ConfigTypeOK
<1>4. ASSUME NEW p \in Proc, AddTag(p)
      PROVE  TypeOK'
  BY <1>4, CommandArguments, AddTagResult, SaveKeepsTypes DEF AddTag
<1>5. ASSUME NEW p \in Proc, AddToParent(p)
      PROVE  TypeOK'
  <2> DEFINE t == add_to_parent(root[p], get_tag(root[p], cmd[p].parent),
                                cmd[p].tag, cmd[p].assignable)
  <2>1. t \in Tree
    BY <1>5, CommandArguments, HasPosition, AddToParentResult DEF AddToParent
  <2>2. Save(p, t)
    BY <1>5 DEF AddToParent
  <2> QED
    BY <2>1, <2>2, SaveKeepsTypes
<1>6. ASSUME NEW p \in Proc, RemoveTag(p)
      PROVE  TypeOK'
  <2> DEFINE t == remove_tag(root[p], get_tag(root[p], cmd[p].tag))
  <2>1. t \in Tree
    BY <1>6, CommandArguments, HasPosition, RemoveTagResult DEF RemoveTag
  <2>2. Save(p, t)
    BY <1>6 DEF RemoveTag
  <2> QED
    BY <2>1, <2>2, SaveKeepsTypes
<1>7. ASSUME NEW p \in Proc, ListTags(p)
      PROVE  TypeOK'
  BY <1>7, ExitKeepsTypes DEF ListTags, TypeOK, ConfigTypeOK
<1>8. ASSUME NEW p \in Proc, Refuse(p)
      PROVE  TypeOK'
  BY <1>8, ExitKeepsTypes DEF Refuse, TypeOK, ConfigTypeOK
<1>9. ASSUME NEW p \in Proc, Flush(p)
      PROVE  TypeOK'
  <2>1. disk' \in Content
    BY <1>9, OverwriteIsContent DEF Flush, TypeOK, ConfigTypeOK
  <2> QED
    BY <1>9, <2>1, ExitKeepsTypes DEF Flush
<1>10. ASSUME NEW p \in Proc, FlushFails(p)
       PROVE  TypeOK'
  BY <1>10, ExitKeepsTypes DEF FlushFails, TypeOK, ConfigTypeOK
<1>11. ASSUME NEW p \in Proc, Kill(p)
       PROVE  TypeOK'
  BY <1>11, ExitKeepsTypes DEF Kill, TypeOK, ConfigTypeOK
<1>12. CASE UNCHANGED vars
  BY <1>12 DEF TypeOK, ConfigTypeOK, vars
<1> QED
  BY <1>1, <1>2, <1>3, <1>4, <1>5, <1>6, <1>7, <1>8, <1>9, <1>10, <1>11, <1>12
     DEF Next, Step

(* Every tree in memory and on disk is a sequence of tags: no position     *)
(* that remove_tag or add_to_parent computes is outside the tree.          *)
THEOREM TypeCorrect == Spec => []TypeOK
BY TypeInit, TypeStep, PTL DEF Spec

-----------------------------------------------------------------------------
(***************************************************************************)
(* The inductive invariant of NoDuplicateTag and Forest: both hold of the  *)
(* file and of the memory of each process, since a process builds the next *)
(* content of the file from the tree it loaded, whatever the file holds by *)
(* the time it writes.                                                     *)
(***************************************************************************)

GoodTree(t) == Unique(t) /\ WellNested(t)

GoodTrees == GoodTree(disk.tree) /\ \A p \in Proc : GoodTree(root[p])

(* The end of a process leaves the empty tree in its place.                *)
LEMMA ExitKeepsTrees ==
    ASSUME TypeOK, GoodTrees, NEW p \in Proc, NEW s, Exit(p, s), GoodTree(disk'.tree)
    PROVE  GoodTrees'
BY SkeletonIsTree DEF GoodTrees, GoodTree, Exit, FreeConfig, TypeOK, ConfigTypeOK

(* A command that makes a good tree keeps all of them good.                *)
LEMMA SaveKeepsTrees ==
    ASSUME TypeOK, GoodTrees, NEW p \in Proc, NEW t \in Tree, GoodTree(t), Save(p, t)
    PROVE  GoodTrees'
<1>1. CASE TruncateConfig(p, t)
  BY <1>1, SkeletonIsTree DEF GoodTrees, GoodTree, TruncateConfig, Empty, TypeOK, ConfigTypeOK
<1>2. CASE Exit(p, "EXIT_SUCCESS") /\ UNCHANGED disk
  BY <1>2, ExitKeepsTrees DEF GoodTrees
<1> QED
  BY <1>1, <1>2 DEF Save

(* Each command keeps all trees good.                                      *)
LEMMA TreesStep == TypeOK /\ GoodTrees /\ [Next]_vars => GoodTrees'
<1> SUFFICES ASSUME TypeOK, GoodTrees, [Next]_vars
             PROVE  GoodTrees'
  OBVIOUS
<1>1. ASSUME NEW p \in Proc, NEW c \in Command, Start(p, c)
      PROVE  GoodTrees'
  BY <1>1 DEF GoodTrees, Start, MeasureConfig
<1>2. ASSUME NEW p \in Proc, Load(p)
      PROVE  GoodTrees'
  BY <1>2 DEF GoodTrees, Load, ParseConfig, TypeOK, ConfigTypeOK
<1>3. ASSUME NEW p \in Proc, LoadFails(p)
      PROVE  GoodTrees'
  BY <1>3, ExitKeepsTrees DEF LoadFails, GoodTrees
<1>4. ASSUME NEW p \in Proc, AddTag(p)
      PROVE  GoodTrees'
  <2> DEFINE t == add_tag(root[p], cmd[p].tag, cmd[p].assignable)
  <2>1. /\ root[p] \in Tree /\ cmd[p].tag \in Name /\ cmd[p].assignable \in BOOLEAN
        /\ get_tag(root[p], cmd[p].tag) = 0
        /\ Unique(root[p]) /\ WellNested(root[p])
    BY <1>4, CommandArguments DEF AddTag, Has, GoodTrees, GoodTree
  <2>2. t \in Tree /\ GoodTree(t)
    BY <2>1, AddTagResult, AddTagUnique, AddTagNested DEF GoodTree
  <2>3. Save(p, t)
    BY <1>4 DEF AddTag
  <2> HIDE DEF t
  <2> QED
    BY <2>2, <2>3, SaveKeepsTrees
<1>5. ASSUME NEW p \in Proc, AddToParent(p)
      PROVE  GoodTrees'
  <2> DEFINE i == get_tag(root[p], cmd[p].parent)
             t == add_to_parent(root[p], i, cmd[p].tag, cmd[p].assignable)
  <2>1. /\ root[p] \in Tree /\ cmd[p].tag \in Name /\ cmd[p].assignable \in BOOLEAN
        /\ i \in 1 .. Len(root[p])
        /\ get_tag(root[p], cmd[p].tag) = 0
        /\ Unique(root[p]) /\ WellNested(root[p])
    BY <1>5, CommandArguments, HasPosition DEF AddToParent, Has, GoodTrees, GoodTree
  <2>2. Save(p, t)
    BY <1>5 DEF AddToParent
  <2> HIDE DEF i
  <2>3. t \in Tree /\ GoodTree(t)
    BY <2>1, AddToParentResult, AddToParentUnique, AddToParentNested DEF GoodTree
  <2> HIDE DEF t
  <2> QED
    BY <2>2, <2>3, SaveKeepsTrees
<1>6. ASSUME NEW p \in Proc, RemoveTag(p)
      PROVE  GoodTrees'
  <2> DEFINE i == get_tag(root[p], cmd[p].tag)
             t == remove_tag(root[p], i)
  <2>1. /\ root[p] \in Tree /\ i \in 1 .. Len(root[p])
        /\ Unique(root[p]) /\ WellNested(root[p])
    BY <1>6, CommandArguments, HasPosition DEF RemoveTag, GoodTrees, GoodTree
  <2>2. Save(p, t)
    BY <1>6 DEF RemoveTag
  <2> HIDE DEF i
  <2>3. t \in Tree /\ GoodTree(t)
    BY <2>1, RemoveTagResult, RemoveTagUnique, RemoveTagNested DEF GoodTree
  <2> HIDE DEF t
  <2> QED
    BY <2>2, <2>3, SaveKeepsTrees
<1>7. ASSUME NEW p \in Proc, ListTags(p) \/ Refuse(p) \/ FlushFails(p) \/ Kill(p)
      PROVE  GoodTrees'
  <2>1. /\ UNCHANGED disk
        /\ Exit(p, "EXIT_SUCCESS") \/ Exit(p, "EXIT_FAILURE") \/ Exit(p, "killed")
    BY <1>7 DEF ListTags, Refuse, FlushFails, Kill
  <2> QED
    BY <2>1, ExitKeepsTrees DEF GoodTrees
<1>8. ASSUME NEW p \in Proc, Flush(p)
      PROVE  GoodTrees'
  <2>1. disk'.tree = root[p]
    BY <1>8, OverwriteIsContent DEF Flush, TypeOK, ConfigTypeOK
  <2> QED
    BY <1>8, <2>1, ExitKeepsTrees DEF Flush, GoodTrees
<1>9. CASE UNCHANGED vars
  BY <1>9 DEF GoodTrees, vars
<1> QED
  BY <1>1, <1>2, <1>3, <1>4, <1>5, <1>6, <1>7, <1>8, <1>9 DEF Next, Step

(* All trees are good in every state of every run.                         *)
THEOREM TreesCorrect == Spec => []GoodTrees
<1>1. Init => GoodTrees
  BY SkeletonIsTree DEF Init, ConfigInit, GoodTrees, GoodTree
<1> QED
  BY <1>1, TreesStep, TypeCorrect, PTL DEF Spec

(* However many processes change the file at the same time, and whatever   *)
(* of them is killed or fails to write: no tree ever has two tags of one   *)
(* name.                                                                   *)
THEOREM NoDuplicates == Spec => []NoDuplicateTag
<1>1. GoodTrees => NoDuplicateTag
  BY DEF GoodTrees, GoodTree, NoDuplicateTag
<1> QED
  BY <1>1, TreesCorrect, PTL

(* Removing and adding tags in the middle of a tree leaves a forest: each  *)
(* tag has exactly one place in it.                                        *)
THEOREM AlwaysForest == Spec => []Forest
<1>1. GoodTrees => Forest
  BY DEF GoodTrees, GoodTree, Forest
<1> QED
  BY <1>1, TreesCorrect, PTL

-----------------------------------------------------------------------------
(***************************************************************************)
(* The file as a new process finds it.                                     *)
(***************************************************************************)

(* A content that was measured when it had at most its present size, and   *)
(* at least the size of its text, can be loaded unless it is too deep.     *)
LEMMA LoadSucceeds ==
    ASSUME NEW c \in Content, NEW nb \in Nat
    PROVE  parse_config_file(c, nb) = "NO_ERROR"
               <=> c.size >= nb /\ nb >= TextSize(c.tree) /\ CanBeParsed(c.tree)
<1>1. c.size \in Nat /\ TextSize(c.tree) \in Nat
  BY TreeElements DEF Content, TextSize
<1>2. CASE c.size < nb
  BY <1>1, <1>2 DEF parse_config_file
<1>3. CASE c.size >= nb /\ nb >= TextSize(c.tree) /\ CanBeParsed(c.tree)
  BY <1>1, <1>3 DEF parse_config_file
<1>4. CASE c.size >= nb /\ ~ (nb >= TextSize(c.tree) /\ CanBeParsed(c.tree))
  BY <1>1, <1>4 DEF parse_config_file
<1> QED
  BY <1>1, <1>2, <1>3, <1>4

(* A process that loads the file found it readable.                        *)
LEMMA LoadMeansReadable ==
    ASSUME TypeOK, NEW p \in Proc, parse_config_file(disk, nbbytes[p]) = "NO_ERROR"
    PROVE  Readable
<1>1. disk \in Content /\ nbbytes[p] \in Nat /\ disk.size \in Nat /\ TextSize(disk.tree) \in Nat
  BY TreeElements DEF TypeOK, ConfigTypeOK, Content, TextSize
<1>2. disk.size >= TextSize(disk.tree) /\ CanBeParsed(disk.tree)
  BY <1>1, LoadSucceeds
<1> QED
  BY <1>1, <1>2, LoadSucceeds DEF Readable

(* An unreadable file that no process is about to write stays unreadable,  *)
(* whatever the number of commands started afterwards.                     *)
THEOREM NoCommandRepairs == Spec => NoRepair
<1>1. TypeOK /\ [Next]_vars => (Dead => Dead' /\ disk' = disk)
  <2> SUFFICES ASSUME TypeOK, [Next]_vars, Dead
               PROVE  Dead' /\ disk' = disk
    OBVIOUS
  <2>1. ASSUME NEW p \in Proc, NEW c \in Command, Start(p, c)
        PROVE  Dead' /\ disk' = disk
    BY <2>1 DEF Start, MeasureConfig, Dead, Readable, TypeOK
  <2>2. ASSUME NEW p \in Proc, Load(p)
        PROVE  FALSE
    BY <2>2, LoadMeansReadable DEF Load, ParseConfig, Dead
  <2>3. ASSUME NEW p \in Proc, LoadFails(p) \/ Kill(p)
        PROVE  Dead' /\ disk' = disk
    BY <2>3 DEF LoadFails, Kill, Exit, Dead, Readable, TypeOK
  <2>4. ASSUME NEW p \in Proc,
               \/ AddTag(p) \/ AddToParent(p) \/ RemoveTag(p) \/ ListTags(p) \/ Refuse(p)
               \/ Flush(p) \/ FlushFails(p)
        PROVE  FALSE
    BY <2>4 DEF AddTag, AddToParent, RemoveTag, ListTags, Refuse, Runs, Flush, FlushFails, Dead
  <2>5. CASE UNCHANGED vars
    BY <2>5 DEF Dead, Readable, vars
  <2> QED
    BY <2>1, <2>2, <2>3, <2>4, <2>5 DEF Next, Step
<1> QED
  BY <1>1, TypeCorrect, PTL DEF Spec, NoRepair

(* A file that is not empty holds a whole text, and an empty one is about  *)
(* to be written: what ReadableWhenQuiet needs to be inductive.            *)
WholeText ==
    disk.size >= TextSize(disk.tree) \/ (disk.size = 0 /\ Writing)

(* Another process goes on writing when one that does not write ends.      *)
LEMMA WritersStay ==
    ASSUME TypeOK, NEW p \in Proc, pc[p] # "writing", NEW s,
           pc' = [pc EXCEPT ![p] = s], Writing
    PROVE  Writing'
<1>1. PICK q \in Proc : pc[q] = "writing"
  BY DEF Writing
<1>2. q # p /\ pc'[q] = "writing"
  BY <1>1 DEF TypeOK
<1> QED
  BY <1>2 DEF Writing

(* Without faults the text is whole after every step.                      *)
LEMMA WholeStep ==
    ASSUME Faults = {}
    PROVE  TypeOK /\ WholeText /\ [Next]_vars => WholeText'
<1> SUFFICES ASSUME TypeOK, WholeText, [Next]_vars
             PROVE  WholeText'
  OBVIOUS
<1>1. ASSUME NEW p \in Proc, pc[p] # "writing", UNCHANGED disk,
             NEW s, pc' = [pc EXCEPT ![p] = s]
      PROVE  WholeText'
  BY <1>1, WritersStay DEF WholeText
<1>2. ASSUME NEW p \in Proc, NEW c \in Command, Start(p, c)
      PROVE  WholeText'
  BY <1>1, <1>2 DEF Start, MeasureConfig
<1>3. ASSUME NEW p \in Proc, Load(p)
      PROVE  WholeText'
  BY <1>1, <1>3 DEF Load, ParseConfig
<1>4. ASSUME NEW p \in Proc, LoadFails(p) \/ ListTags(p) \/ Refuse(p)
      PROVE  WholeText'
  BY <1>1, <1>4 DEF LoadFails, ListTags, Refuse, Runs, Exit
<1>5. ASSUME NEW p \in Proc, NEW t, Save(p, t)
      PROVE  WholeText'
  <2>1. disk' = Empty /\ pc' = [pc EXCEPT ![p] = "writing"]
    BY <1>5 DEF Save, TruncateConfig
  <2>2. disk'.size = 0 /\ pc'[p] = "writing"
    BY <2>1 DEF Empty, TypeOK
  <2> QED
    BY <2>2 DEF WholeText, Writing
<1>6. ASSUME NEW p \in Proc, AddTag(p) \/ AddToParent(p) \/ RemoveTag(p)
      PROVE  WholeText'
  BY <1>5, <1>6 DEF AddTag, AddToParent, RemoveTag
<1>7. ASSUME NEW p \in Proc, Flush(p)
      PROVE  WholeText'
  <2>1. disk' = Overwrite(disk, root[p]) /\ disk \in Content /\ root[p] \in Tree
    BY <1>7 DEF Flush, TypeOK, ConfigTypeOK
  <2>2. disk'.size >= TextSize(disk'.tree)
    BY <2>1, OverwriteIsContent
  <2> QED
    BY <2>2 DEF WholeText
<1>8. ASSUME NEW p \in Proc, FlushFails(p) \/ Kill(p)
      PROVE  FALSE
  BY <1>8 DEF FlushFails, Kill
<1>9. CASE UNCHANGED vars
  BY <1>9 DEF WholeText, Writing, vars
<1> QED
  BY <1>2, <1>3, <1>4, <1>6, <1>7, <1>8, <1>9 DEF Next, Step

(* When nothing fails and the nesting limit is beyond any forest of the    *)
(* names, the only commands that cannot load the file are those that run   *)
(* between another one's truncation and write: it is never left torn by    *)
(* writers that overlap, however long their texts.                         *)
THEOREM QuietFileIsReadable ==
    ASSUME Faults = {},
           \A t \in Tree : Unique(t) /\ WellNested(t) => CanBeParsed(t)
    PROVE  Spec => []ReadableWhenQuiet
<1>1. Init => WholeText
  BY SkeletonIsTree DEF Init, ConfigInit, WholeText
<1>2. TypeOK /\ GoodTrees /\ WholeText => ReadableWhenQuiet
  <2> SUFFICES ASSUME TypeOK, GoodTrees, WholeText, ~ Writing
               PROVE  Readable
    BY DEF ReadableWhenQuiet
  <2>1. disk \in Content /\ disk.tree \in Tree /\ disk.size \in Nat
    BY DEF TypeOK, ConfigTypeOK, Content
  <2>2. disk.size >= TextSize(disk.tree) /\ CanBeParsed(disk.tree)
    BY <2>1 DEF WholeText, GoodTrees, GoodTree
  <2> QED
    BY <2>1, <2>2, LoadSucceeds DEF Readable
<1> QED
  BY <1>1, <1>2, WholeStep, TypeCorrect, TreesCorrect, PTL DEF Spec

=============================================================================
