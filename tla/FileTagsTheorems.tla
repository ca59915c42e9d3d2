-------------------------- MODULE FileTagsTheorems --------------------------
(***************************************************************************)
(* What FileTags guarantees for every set of processes, users, files,      *)
(* names, command lines and events.                                        *)
(***************************************************************************)
EXTENDS FileTagsHistory, SequenceTheorems, FiniteSetTheorems, TLAPS

(* A sequence without its head has the other elements.                     *)
LEMMA TailElements ==
    ASSUME NEW S, NEW s \in Seq(S), s # << >>
    PROVE  /\ Head(s) \in S
           /\ Head(s) \in Range(s)
           /\ Tail(s) \in Seq(S)
           /\ Range(s) = {Head(s)} \cup Range(Tail(s))
<1>1. /\ Head(s) \in S /\ Tail(s) \in Seq(S) /\ Len(Tail(s)) = Len(s) - 1
      /\ \A i \in 1 .. Len(Tail(s)) : Tail(s)[i] = s[i + 1]
  BY HeadTailProperties
<1>2. Len(s) \in Nat /\ Len(s) >= 1 /\ DOMAIN s = 1 .. Len(s) /\ Head(s) = s[1]
  OBVIOUS
<1>3. DOMAIN Tail(s) = 1 .. Len(Tail(s))
  BY <1>1
<1>4. Range(s) \subseteq {Head(s)} \cup Range(Tail(s))
  <2> SUFFICES ASSUME NEW i \in 1 .. Len(s), i # 1
               PROVE  s[i] \in Range(Tail(s))
    BY <1>2 DEF Range
  <2>1. i - 1 \in 1 .. Len(Tail(s)) /\ Tail(s)[i - 1] = s[i]
    BY <1>1, <1>2
  <2> QED
    BY <2>1, <1>3 DEF Range
<1>5. Range(Tail(s)) \subseteq Range(s)
  <2> SUFFICES ASSUME NEW i \in 1 .. Len(Tail(s))
               PROVE  Tail(s)[i] \in Range(s)
    BY <1>3 DEF Range
  <2>1. i + 1 \in 1 .. Len(s) /\ Tail(s)[i] = s[i + 1]
    BY <1>1, <1>2
  <2> QED
    BY <2>1, <1>2 DEF Range
<1>6. Head(s) \in Range(s)
  BY <1>2 DEF Range
<1> QED
  BY <1>1, <1>4, <1>5, <1>6

LEMMA TailIsShorter ==
    ASSUME NEW S, NEW s \in Seq(S), s # << >>
    PROVE  Tail(s) # s
<1> DEFINE t == Tail(s)
<1>1. Len(t) = Len(s) - 1 /\ Len(s) \in Nat
  BY HeadTailProperties
<1> HIDE DEF t
<1>2. t # s
  BY <1>1
<1> QED
  BY <1>2 DEF t

(* A set of keys can be counted, and put into an order that leaves no key  *)
(* out.                                                                    *)
LEMMA KeysInOrder ==
    ASSUME NEW K \in SUBSET Key
    PROVE  /\ Cardinality(K) \in Nat
           /\ \A s \in SetToSeqs(K) : s \in Seq(Key) /\ Range(s) = K
<1>1. IsFiniteSet(K) /\ Cardinality(K) \in Nat
  BY FiniteAssumption, FS_Subset, FS_CardinalityType
<1>2. ASSUME NEW s \in SetToSeqs(K)
      PROVE  s \in Seq(Key) /\ Range(s) = K
  <2> DEFINE D == 1 .. Cardinality(K)
  <2>1. s \in [D -> K] /\ \A i, j \in D : i # j => s[i] # s[j]
    BY <1>2 DEF SetToSeqs
  <2>2. s \in Injection(D, K)
    BY <2>1 DEF Injection, IsInjective
  <2>3. Cardinality(D) = Cardinality(K)
    BY <1>1, FS_Interval
  <2>4. s \in Surjection(D, K)
    BY <1>1, <2>2, <2>3, FS_Injection
  <2>5. Range(s) = K
    BY <2>1, <2>4 DEF Surjection, Range
  <2>6. s \in Seq(Key)
    BY <1>1, <2>1
  <2> QED
    BY <2>5, <2>6
<1> QED
  BY <1>1, <1>2

-----------------------------------------------------------------------------

LEMMA ExitKeepsTypes ==
    ASSUME TypeOK, NEW p \in Proc,
           NEW s \in {"none", "EXIT_SUCCESS", "EXIT_FAILURE", "killed"}, Exit(p, s)
    PROVE  TypeOK'
BY DEF TypeOK, Exit

(* The command line of a process, and what Start makes of its tags.        *)
LEMMA CommandLine ==
    ASSUME NEW c \in Command
    PROVE  /\ c.user \in User /\ c.user \in Runner
           /\ c.prog \in {"assign", "rm", "clear", "display"}
           /\ c.file \in File
           /\ c.tags \in Seq(Name)
           /\ [i \in DOMAIN c.tags |-> KeyOf(c.user, c.tags[i])] \in Seq(Key)
<1>1. /\ c.user \in User /\ c.prog \in {"assign", "rm", "clear", "display"}
      /\ c.file \in File /\ c.tags \in Seq(Name)
  BY CommandAssumption DEF CommandLines
<1>2. ASSUME NEW i \in DOMAIN c.tags
      PROVE  KeyOf(c.user, c.tags[i]) \in Key
  <2>1. c.tags[i] \in Name
    BY <1>1
  <2> QED
    BY <1>1, <2>1 DEF KeyOf, Key
<1>3. DOMAIN c.tags = 1 .. Len(c.tags) /\ Len(c.tags) \in Nat
  BY <1>1
<1> QED
  BY <1>1, <1>2, <1>3 DEF Runner

(* The place of a process in main() follows from its program.              *)
Places ==
    \A p \in Proc :
        /\ pc[p] = "exited" => cmd[p] = NoCommand
        /\ pc[p] # "exited" => cmd[p] \in Command
        /\ pc[p] \in {"loading", "assigning"} => cmd[p].prog = "assign"
        /\ pc[p] = "removing" => cmd[p].prog = "rm"
        /\ pc[p] \in {"measuring", "listing"} => cmd[p].prog \in {"clear", "display"}
        /\ pc[p] = "clearing" => cmd[p].prog = "clear"

LEMMA PlacesInit == Init => TypeOK /\ Places
BY DEF Init, TypeOK, Places

(* A step on the attributes of a file that goes on to the next key.        *)
LEMMA AdvanceKeeps ==
    ASSUME TypeOK, Places, NEW p \in Proc, pc[p] # "exited", todo[p] # << >>, Advance(p),
           failed' \in [Proc -> BOOLEAN],
           attrs' \in [File -> SUBSET Key]
    PROVE  TypeOK' /\ Places'
<1>1. Tail(todo[p]) \in Seq(Key)
  BY TailElements DEF TypeOK
<1> QED
  BY <1>1 DEF Advance, TypeOK, Places

LEMMA TypeStep == TypeOK /\ Places /\ [Next]_vars => TypeOK' /\ Places'
<1> SUFFICES ASSUME TypeOK, Places, [Next]_vars
             PROVE  TypeOK' /\ Places'
  OBVIOUS
<1>1. ASSUME NEW p \in Proc, NEW c \in Command, Start(p, c)
      PROVE  TypeOK' /\ Places'
  BY <1>1, CommandLine DEF Start, FirstStep, TypeOK, Places
<1>2. ASSUME NEW p \in Proc,
             NEW s \in {"none", "EXIT_SUCCESS", "EXIT_FAILURE", "killed"}, Exit(p, s)
      PROVE  TypeOK' /\ Places'
  BY <1>2, ExitKeepsTypes DEF Exit, Places, TypeOK
<1>3. ASSUME NEW p \in Proc, LoadConfig(p)
      PROVE  TypeOK' /\ Places'
  <2>1. config[cmd[p].user] \in Config
    BY <1>3, CommandLine DEF LoadConfig, TypeOK, Places
  <2>2. config[cmd[p].user].assignable \in SUBSET Name
    BY <2>1 DEF Config
  <2> QED
    BY <1>3, <2>2 DEF LoadConfig, TypeOK, Places
<1>4. ASSUME NEW p \in Proc, SetTag(p) \/ RemoveTag(p) \/ RemoveTagFails(p) \/ ClearTag(p)
      PROVE  TypeOK' /\ Places'
  <2>1. pc[p] # "exited" /\ todo[p] # << >> /\ Advance(p)
    BY <1>4 DEF SetTag, RemoveTag, RemoveTagFails, ClearTag, At
  <2>2. Head(todo[p]) \in Key
    BY <2>1, TailElements DEF TypeOK
  <2>3. attrs' \in [File -> SUBSET Key]
    BY <1>4, <2>2 DEF SetTag, RemoveTag, RemoveTagFails, ClearTag, TypeOK
  <2>4. failed' \in [Proc -> BOOLEAN]
    BY <1>4 DEF SetTag, RemoveTag, RemoveTagFails, ClearTag, TypeOK
  <2> QED
    BY <2>1, <2>3, <2>4, AdvanceKeeps
<1>5. ASSUME NEW p \in Proc, MeasureList(p)
      PROVE  TypeOK' /\ Places'
  <2>1. cmd[p].file \in File
    BY <1>5, CommandLine DEF MeasureList, Places
  <2>2. Cardinality(attrs[cmd[p].file]) \in Nat
    BY <2>1, KeysInOrder DEF TypeOK
  <2> QED
    BY <1>5, <2>2 DEF MeasureList, TypeOK, Places
<1>6. ASSUME NEW p \in Proc, ListKeys(p)
      PROVE  TypeOK' /\ Places'
  <2> DEFINE K == TagKeys(p, attrs[cmd[p].file])
  <2>1. cmd[p].file \in File
    BY <1>6, CommandLine DEF ListKeys, Places
  <2>2. K \in SUBSET Key
    BY <2>1 DEF TagKeys, TypeOK
  <2>3. PICK s \in SetToSeqs(K) : todo' = [todo EXCEPT ![p] = s]
    BY <1>6 DEF ListKeys
  <2>4. s \in Seq(Key)
    BY <2>2, <2>3, KeysInOrder
  <2> QED
    BY <1>6, <2>3, <2>4 DEF ListKeys, TypeOK, Places
<1>7. ASSUME NEW u \in Runner, Reconfigure(u)
      PROVE  TypeOK' /\ Places'
  BY <1>7 DEF Reconfigure, TypeOK, Places
<1>8. CASE UNCHANGED vars
  BY <1>8 DEF vars, TypeOK, Places
<1>9. ASSUME NEW p \in Proc,
             \/ LoadConfigFails(p) \/ SetTagFails(p) \/ AssignEnds(p) \/ RemoveEnds(p)
             \/ MeasureNothing(p) \/ DisplayKeys(p) \/ ListFails(p) \/ ClearEnds(p) \/ Kill(p)
      PROVE  \E s \in {"none", "EXIT_SUCCESS", "EXIT_FAILURE", "killed"} : Exit(p, s)
  BY <1>9 DEF LoadConfigFails, SetTagFails, AssignEnds, RemoveEnds, MeasureNothing,
              DisplayKeys, ListFails, ClearEnds, Kill
<1> QED
  BY <1>1, <1>2, <1>3, <1>4, <1>5, <1>6, <1>7, <1>8, <1>9 DEF Next, Step

-----------------------------------------------------------------------------

(* What the history variables say of a process that runs on: every key     *)
(* that left the file of assign-tag, or came to that of rm-tag, is         *)
(* remembered, and so is every key that could not be removed.              *)
LEMMA HistoryStep ==
    ASSUME HistoryTypeOK, Places, [HNext]_historyVars, NEW p \in Proc,
           pc[p] # "exited", pc'[p] # "exited"
    PROVE  LET f == cmd[p].file
           IN  /\ cmd[p].prog # "assign" =>
                      added[p] \subseteq added'[p] /\ attrs'[f] \subseteq attrs[f] \cup added'[p]
               /\ cmd[p].prog = "assign" =>
                      removed[p] \subseteq removed'[p] /\ attrs[f] \subseteq attrs'[f] \cup removed'[p]
               /\ missed[p] \subseteq missed'[p]
<1>1. CASE HNext
  BY <1>1 DEF HNext, Runs, HistoryTypeOK
<1>2. CASE UNCHANGED historyVars
  BY <1>2 DEF historyVars, vars
<1> QED
  BY <1>1, <1>2

LEMMA HistoryTypes == HistoryTypeOK /\ Places /\ [HNext]_historyVars => HistoryTypeOK' /\ Places'
<1> SUFFICES ASSUME HistoryTypeOK, Places, [HNext]_historyVars
             PROVE  HistoryTypeOK' /\ Places'
  OBVIOUS
<1>1. TypeOK' /\ Places'
  BY TypeStep DEF HNext, HistoryTypeOK, historyVars
<1>2. CASE HNext
  <2>1. ASSUME NEW p \in Proc, Runs(p)
        PROVE  attrs[cmd[p].file] \in SUBSET Key /\ attrs'[cmd[p].file] \in SUBSET Key
    BY <2>1, <1>1, CommandLine DEF Runs, Places, HistoryTypeOK, TypeOK
  <2>2. ASSUME NEW p \in Proc, pc'[p] # "exited"
        PROVE  config'[cmd'[p].user].assignable \in SUBSET Name
    <3>1. config'[cmd'[p].user] \in Config
      BY <2>2, <1>1, CommandLine DEF Places, TypeOK
    <3> QED
      BY <3>1 DEF Config
  <2>3. /\ added' \in [Proc -> SUBSET Key] /\ removed' \in [Proc -> SUBSET Key]
        /\ missed' \in [Proc -> SUBSET Key]
    BY <1>2, <2>1 DEF HNext, HistoryTypeOK
  <2>4. assignable' \in [Proc -> SUBSET Name]
    BY <1>2, <2>2 DEF HNext, HistoryTypeOK
  <2> QED
    BY <1>1, <2>3, <2>4 DEF HistoryTypeOK
<1>3. CASE UNCHANGED historyVars
  BY <1>1, <1>3 DEF historyVars, HistoryTypeOK
<1> QED
  BY <1>2, <1>3

(* Every list of keys that is left to handle consists of keys, every       *)
(* buffer has a length, and the history of a process concerns its file.    *)
THEOREM FileTypesCorrect == HSpec => []HistoryTypeOK
<1>1. HInit => HistoryTypeOK /\ Places
  BY PlacesInit DEF HInit, NoHistory, HistoryTypeOK
<1> QED
  BY <1>1, HistoryTypes, PTL DEF HSpec

-----------------------------------------------------------------------------
(***************************************************************************)
(* The inductive invariant.  Each loop of the commands walks over a list   *)
(* of keys; what it has done so far is what its process promises, for the  *)
(* keys that are not in todo any more.                                     *)
(***************************************************************************)

(* Every key a process will still handle is one of its user's.             *)
OwnKeys(p) ==
    pc[p] # "exited" => \A k \in Range(todo[p]) : k.user = cmd[p].user

(* assign-tag: a tag is set, was removed meanwhile, or is still to come.   *)
Assigned(p) ==
    pc[p] \in {"loading", "assigning"} =>
        KeysOf(p, Range(cmd[p].tags))
            \subseteq attrs[cmd[p].file] \cup removed[p] \cup Range(todo[p])

(* rm-tag: if nothing failed, a tag that is there was set meanwhile or is  *)
(* still to come.                                                          *)
Removed(p) ==
    pc[p] = "removing" /\ ~ failed[p] =>
        KeysOf(p, Range(cmd[p].tags)) \cap attrs[cmd[p].file]
            \subseteq added[p] \cup Range(todo[p])

(* rm-tag -c: so it is for every tag of the user, once they are listed,    *)
(* but for those it could not remove.                                      *)
Cleared(p) ==
    pc[p] = "clearing" =>
        KeysOf(p, Name \ {EmptyName}) \cap attrs[cmd[p].file]
            \subseteq added[p] \cup missed[p] \cup Range(todo[p])

(* assign-tag: the tree in memory was that of the file at some time.       *)
Known(p) ==
    /\ pc[p] \in {"loading", "assigning"} =>
           config[cmd[p].user].assignable \subseteq assignable[p]
    /\ pc[p] = "assigning" => known[p] \subseteq assignable[p]

Progress(p) == OwnKeys(p) /\ Assigned(p) /\ Removed(p) /\ Cleared(p) /\ Known(p)

(* The configuration is always part of the history of assign-tag.          *)
LEMMA AssignableStep ==
    ASSUME HistoryTypeOK, Places, [HNext]_historyVars, NEW p \in Proc, Progress(p),
           pc'[p] \in {"loading", "assigning"}
    PROVE  /\ config'[cmd'[p].user].assignable \subseteq assignable'[p]
           /\ pc[p] \in {"loading", "assigning"} => assignable[p] \subseteq assignable'[p]
<1>1. CASE HNext
  BY <1>1 DEF HNext, HistoryTypeOK
<1>2. CASE UNCHANGED historyVars
  BY <1>2 DEF historyVars, vars, Progress, Known
<1> QED
  BY <1>1, <1>2

(* Steps of other processes: what they do to the file is remembered.       *)
LEMMA OthersKeepProgress ==
    ASSUME HistoryTypeOK, Places, [HNext]_historyVars, NEW p \in Proc, Progress(p),
           pc'[p] = pc[p], cmd'[p] = cmd[p], todo'[p] = todo[p],
           known'[p] = known[p], failed'[p] = failed[p]
    PROVE  Progress(p)'
<1>1. CASE pc[p] = "exited"
  BY <1>1 DEF Progress, OwnKeys, Assigned, Removed, Cleared, Known
<1>2. CASE pc[p] # "exited"
  <2> DEFINE f == cmd[p].file
  <2>1. /\ pc[p] \in {"removing", "clearing"} =>
               added[p] \subseteq added'[p] /\ attrs'[f] \subseteq attrs[f] \cup added'[p]
        /\ pc[p] \in {"loading", "assigning"} =>
               removed[p] \subseteq removed'[p] /\ attrs[f] \subseteq attrs'[f] \cup removed'[p]
        /\ missed[p] \subseteq missed'[p]
    BY <1>2, HistoryStep DEF Places
  <2>2. Known(p)'
    BY <1>2, AssignableStep DEF Known, Progress
  <2>3. OwnKeys(p)'
    BY <1>2 DEF OwnKeys, Progress
  <2>4. Assigned(p)'
    BY <2>1 DEF Assigned, Progress, KeysOf
  <2>5. Removed(p)'
    BY <2>1 DEF Removed, Progress, KeysOf
  <2>6. Cleared(p)'
    BY <2>1 DEF Cleared, Progress, KeysOf
  <2> QED
    BY <2>2, <2>3, <2>4, <2>5, <2>6 DEF Progress
<1> QED
  BY <1>1, <1>2

(* A process that starts has everything to do.                             *)
LEMMA StartHasProgress ==
    ASSUME HistoryTypeOK, Places, [HNext]_historyVars, NEW p \in Proc, Progress(p),
           NEW c \in Command, Start(p, c)
    PROVE  Progress(p)'
<1> DEFINE s == [i \in DOMAIN c.tags |-> KeyOf(c.user, c.tags[i])]
<1>1. /\ cmd'[p] = c /\ todo'[p] = s
      /\ pc'[p] \in {"loading", "removing", "measuring"}
  <2>1. c.prog \in {"assign", "rm", "clear", "display"}
    BY CommandLine
  <2>2. FirstStep(c.prog) \in {"loading", "removing", "measuring"}
    BY <2>1 DEF FirstStep
  <2> QED
    BY <2>2 DEF Start, HistoryTypeOK, TypeOK
<1>2. Range(s) = {KeyOf(c.user, n) : n \in Range(c.tags)}
  BY DEF Range
<1>3. \A k \in Range(s) : k.user = c.user
  BY <1>2 DEF KeyOf
<1>4. Known(p)'
  BY <1>1, AssignableStep DEF Known
<1> QED
  BY <1>1, <1>2, <1>3, <1>4 DEF Progress, OwnKeys, Assigned, Removed, Cleared, KeysOf

(* The tree is loaded: what is assignable in it is assignable now.         *)
LEMMA LoadKeepsProgress ==
    ASSUME HistoryTypeOK, Places, [HNext]_historyVars, NEW p \in Proc, Progress(p),
           LoadConfig(p)
    PROVE  Progress(p)'
<1>1. /\ pc[p] = "loading" /\ pc'[p] = "assigning"
      /\ cmd'[p] = cmd[p] /\ todo'[p] = todo[p] /\ attrs' = attrs
      /\ known'[p] = config[cmd[p].user].assignable
  BY DEF LoadConfig, HistoryTypeOK, TypeOK
<1>2. removed[p] \subseteq removed'[p]
  BY <1>1, HistoryStep DEF Places
<1>3. Known(p)'
  <2>1. config[cmd[p].user].assignable \subseteq assignable[p]
    BY <1>1 DEF Progress, Known
  <2>2. /\ config'[cmd'[p].user].assignable \subseteq assignable'[p]
        /\ assignable[p] \subseteq assignable'[p]
    BY <1>1, AssignableStep
  <2> QED
    BY <1>1, <2>1, <2>2 DEF Known
<1> QED
  BY <1>1, <1>2, <1>3 DEF Progress, OwnKeys, Assigned, Removed, Cleared, KeysOf

(* A key rm-tag -c is done with is gone, or is remembered as missed.       *)
LEMMA MissedStep ==
    ASSUME HistoryTypeOK, [HNext]_historyVars, NEW p \in Proc,
           pc[p] = "clearing", pc'[p] = "clearing", todo[p] # << >>, todo'[p] = Tail(todo[p])
    PROVE  Head(todo[p]) \notin attrs'[cmd[p].file] \/ Head(todo[p]) \in missed'[p]
<1>1. todo'[p] # todo[p]
  BY TailIsShorter DEF HistoryTypeOK, TypeOK
<1>2. HNext
  BY <1>1 DEF historyVars, vars
<1> QED
  BY <1>1, <1>2 DEF HNext, Runs, Tried, At, HistoryTypeOK

(* One key is handled: it is not to come any more.                         *)
LEMMA HandlingKeepsProgress ==
    ASSUME HistoryTypeOK, Places, [HNext]_historyVars, NEW p \in Proc, Progress(p),
           SetTag(p) \/ RemoveTag(p) \/ RemoveTagFails(p) \/ ClearTag(p)
    PROVE  Progress(p)'
<1> DEFINE f == cmd[p].file
           k == Head(todo[p])
<1>1. /\ pc[p] \in {"assigning", "removing", "clearing"} /\ todo[p] # << >>
      /\ pc'[p] = pc[p] /\ cmd'[p] = cmd[p] /\ known'[p] = known[p]
      /\ todo'[p] = Tail(todo[p])
  BY DEF SetTag, RemoveTag, RemoveTagFails, ClearTag, At, Advance, HistoryTypeOK, TypeOK
<1>2. f \in File
  BY <1>1, CommandLine DEF Places
<1>3. Range(todo[p]) = {k} \cup Range(todo'[p])
  BY <1>1, TailElements DEF HistoryTypeOK, TypeOK
<1>4. /\ pc[p] \in {"removing", "clearing"} =>
             added[p] \subseteq added'[p] /\ attrs'[f] \subseteq attrs[f] \cup added'[p]
      /\ pc[p] = "assigning" =>
             removed[p] \subseteq removed'[p] /\ attrs[f] \subseteq attrs'[f] \cup removed'[p]
      /\ missed[p] \subseteq missed'[p]
  BY <1>1, HistoryStep DEF Places
<1>5. OwnKeys(p)'
  BY <1>1, <1>3 DEF Progress, OwnKeys
<1>6. Known(p)'
  BY <1>1, AssignableStep DEF Progress, Known
<1>7. Assigned(p)'
  <2>1. CASE pc[p] = "assigning"
    <3>1. k \in attrs'[f]
      BY <1>2, <2>1 DEF SetTag, RemoveTag, RemoveTagFails, ClearTag, At, HistoryTypeOK, TypeOK
    <3> QED
      BY <1>1, <1>3, <1>4, <2>1, <3>1 DEF Progress, Assigned, KeysOf
  <2> QED
    BY <1>1, <2>1 DEF Assigned
<1>8. Removed(p)'
  <2>1. CASE pc[p] = "removing" /\ ~ failed'[p]
    <3>1. k \notin attrs'[f] /\ ~ failed[p]
      BY <1>2, <2>1 DEF SetTag, RemoveTag, RemoveTagFails, ClearTag, At, HistoryTypeOK, TypeOK
    <3> QED
      BY <1>1, <1>3, <1>4, <2>1, <3>1 DEF Progress, Removed, KeysOf
  <2> QED
    BY <1>1, <2>1 DEF Removed
<1>9. Cleared(p)'
  <2>1. CASE pc[p] = "clearing"
    <3>1. k \notin attrs'[f] \/ k \in missed'[p]
      BY <1>1, <2>1, MissedStep
    <3> QED
      BY <1>1, <1>3, <1>4, <2>1, <3>1 DEF Progress, Cleared, KeysOf
  <2> QED
    BY <1>1, <2>1 DEF Cleared
<1> QED
  BY <1>5, <1>6, <1>7, <1>8, <1>9 DEF Progress

(* The list of keys has every tag of the user.                             *)
LEMMA ListingKeepsProgress ==
    ASSUME HistoryTypeOK, Places, [HNext]_historyVars, NEW p \in Proc, Progress(p),
           ListKeys(p)
    PROVE  Progress(p)'
<1> DEFINE f == cmd[p].file
           K == TagKeys(p, attrs[f])
<1>1. /\ pc[p] = "listing" /\ pc'[p] = "clearing" /\ cmd'[p] = cmd[p] /\ attrs' = attrs
  BY DEF ListKeys, HistoryTypeOK, TypeOK
<1>2. K \in SUBSET Key
  BY <1>1, CommandLine DEF TagKeys, Places, HistoryTypeOK, TypeOK
<1>3. PICK s \in SetToSeqs(K) : todo'[p] = s
  BY DEF ListKeys, HistoryTypeOK, TypeOK
<1>4. Range(todo'[p]) = K
  BY <1>2, <1>3, KeysInOrder
<1>5. KeysOf(p, Name \ {EmptyName}) \cap attrs[f] \subseteq K
  BY DEF KeysOf, KeyOf, TagKeys
<1>6. Known(p)'
  BY <1>1, AssignableStep DEF Known
<1> QED
  BY <1>1, <1>4, <1>5, <1>6
     DEF Progress, OwnKeys, Assigned, Removed, Cleared, KeysOf, TagKeys

(* Buffers are measured before any key is listed.                          *)
LEMMA MeasuringKeepsProgress ==
    ASSUME HistoryTypeOK, Places, [HNext]_historyVars, NEW p \in Proc, Progress(p),
           MeasureList(p)
    PROVE  Progress(p)'
<1>1. /\ pc[p] = "measuring" /\ pc'[p] = "listing" /\ cmd'[p] = cmd[p] /\ todo'[p] = todo[p]
  BY DEF MeasureList, HistoryTypeOK, TypeOK
<1>2. Known(p)'
  BY <1>1, AssignableStep DEF Known
<1> QED
  BY <1>1, <1>2 DEF Progress, OwnKeys, Assigned, Removed, Cleared

(* How a step looks from a process p: it starts, ends, goes on, or is left *)
(* alone.                                                                  *)
Ends(p) ==
    \/ LoadConfigFails(p) \/ SetTagFails(p) \/ AssignEnds(p) \/ RemoveEnds(p)
    \/ MeasureNothing(p) \/ DisplayKeys(p) \/ ListFails(p) \/ ClearEnds(p) \/ Kill(p)

GoesOn(p) ==
    \/ LoadConfig(p) \/ MeasureList(p) \/ ListKeys(p)
    \/ SetTag(p) \/ RemoveTag(p) \/ RemoveTagFails(p) \/ ClearTag(p)

Rests(p) ==
    /\ pc'[p] = pc[p] /\ cmd'[p] = cmd[p] /\ todo'[p] = todo[p]
    /\ known'[p] = known[p] /\ failed'[p] = failed[p]

LEMMA EndsExit ==
    ASSUME TypeOK, NEW p \in Proc, Ends(p)
    PROVE  /\ pc'[p] = "exited" /\ UNCHANGED <<attrs, config>>
           /\ \A q \in Proc : q # p => Rests(q)
BY DEF Ends, LoadConfigFails, SetTagFails, AssignEnds, RemoveEnds, MeasureNothing,
       DisplayKeys, ListFails, ClearEnds, Kill, Exit, Rests, TypeOK

LEMMA OneActs ==
    ASSUME TypeOK, [Next]_vars, NEW p \in Proc
    PROVE  Rests(p) \/ Ends(p) \/ GoesOn(p) \/ \E c \in Command : Start(p, c)
<1>1. ASSUME NEW q \in Proc, NEW c \in Command, Start(q, c), q # p
      PROVE  Rests(p)
  BY <1>1 DEF Start, Rests, TypeOK
<1>2. ASSUME NEW q \in Proc, Ends(q), q # p
      PROVE  Rests(p)
  BY <1>2, EndsExit
<1>3. ASSUME NEW q \in Proc, GoesOn(q), q # p
      PROVE  Rests(p)
  BY <1>3 DEF GoesOn, LoadConfig, MeasureList, ListKeys, SetTag, RemoveTag,
              RemoveTagFails, ClearTag, Advance, Rests, TypeOK
<1>4. ASSUME NEW u \in Runner, Reconfigure(u)
      PROVE  Rests(p)
  BY <1>4 DEF Reconfigure, Rests
<1>5. CASE UNCHANGED vars
  BY <1>5 DEF vars, Rests
<1>6. CASE Next
  <2>1. \/ \E q \in Proc : Ends(q) \/ GoesOn(q) \/ \E c \in Command : Start(q, c)
        \/ \E u \in Runner : Reconfigure(u)
    BY <1>6 DEF Next, Step, Ends, GoesOn
  <2> QED
    BY <2>1, <1>1, <1>2, <1>3, <1>4
<1> QED
  BY <1>5, <1>6

LEMMA NextOfHistory ==
    ASSUME [HNext]_historyVars
    PROVE  [Next]_vars
BY DEF HNext, historyVars

LEMMA ProgressStep ==
    ASSUME HistoryTypeOK, Places, [HNext]_historyVars, NEW p \in Proc, Progress(p)
    PROVE  Progress(p)'
<1>1. CASE Rests(p)
  BY <1>1, OthersKeepProgress DEF Rests
<1>2. CASE Ends(p)
  <2>1. pc'[p] = "exited"
    BY <1>2, EndsExit DEF HistoryTypeOK
  <2> QED
    BY <2>1 DEF Progress, OwnKeys, Assigned, Removed, Cleared, Known
<1>3. CASE GoesOn(p)
  BY <1>3, LoadKeepsProgress, MeasuringKeepsProgress, ListingKeepsProgress,
     HandlingKeepsProgress DEF GoesOn
<1>4. CASE \E c \in Command : Start(p, c)
  BY <1>4, StartHasProgress
<1> QED
  BY <1>1, <1>2, <1>3, <1>4, OneActs, NextOfHistory DEF HistoryTypeOK

FileInv == HistoryTypeOK /\ Places /\ \A p \in Proc : Progress(p)

LEMMA FileInvariant == HSpec => []FileInv
<1>1. HInit => FileInv
  BY PlacesInit DEF HInit, Init, NoHistory, HistoryTypeOK, FileInv,
                    Progress, OwnKeys, Assigned, Removed, Cleared, Known
<1>2. FileInv /\ [HNext]_historyVars => FileInv'
  <2> SUFFICES ASSUME FileInv, [HNext]_historyVars
               PROVE  FileInv'
    OBVIOUS
  <2>1. HistoryTypeOK' /\ Places'
    BY HistoryTypes DEF FileInv
  <2>2. ASSUME NEW p \in Proc
        PROVE  Progress(p)'
    BY ProgressStep DEF FileInv
  <2> QED
    BY <2>1, <2>2 DEF FileInv
<1> QED
  BY <1>1, <1>2, PTL DEF HSpec

-----------------------------------------------------------------------------
(***************************************************************************)
(* The action properties.                                                  *)
(***************************************************************************)

(* A process that succeeds takes the step at the end of its loop, or finds *)
(* nothing to list.                                                        *)
LEMMA SuccessIsAnEnd ==
    ASSUME FileInv, [HNext]_historyVars, NEW p \in Proc, NEW prog \in {"assign", "rm", "clear"},
           Succeeds(p, prog)
    PROVE  /\ attrs' = attrs
           /\ prog = "assign" => AssignEnds(p)
           /\ prog = "rm" => RemoveEnds(p) /\ ~ failed[p]
           /\ prog = "clear" => ClearEnds(p) \/ MeasureNothing(p)
<1>1. pc[p] # "exited"
  BY DEF FileInv, Places, Succeeds, NoCommand
<1>2. Ends(p)
  <2>1. ~ Rests(p)
    BY <1>1 DEF Rests, Succeeds
  <2>2. \A c \in Command : ~ Start(p, c)
    BY <1>1 DEF Start
  <2>3. ~ GoesOn(p)
    BY <1>1 DEF GoesOn, LoadConfig, MeasureList, ListKeys, SetTag, RemoveTag, RemoveTagFails,
                ClearTag, Advance, Succeeds, FileInv, HistoryTypeOK, TypeOK
  <2> QED
    BY <2>1, <2>2, <2>3, OneActs, NextOfHistory DEF FileInv, HistoryTypeOK
<1>3. attrs' = attrs
  BY <1>2, EndsExit DEF FileInv, HistoryTypeOK
<1>4. status'[p] = "EXIT_SUCCESS"
  BY DEF Succeeds
<1>5. /\ ~ LoadConfigFails(p) /\ ~ SetTagFails(p) /\ ~ ListFails(p) /\ ~ Kill(p)
      /\ RemoveEnds(p) => ~ failed[p]
  BY <1>4 DEF LoadConfigFails, SetTagFails, ListFails, Kill, RemoveEnds, Exit,
              FileInv, HistoryTypeOK, TypeOK
<1>6. /\ AssignEnds(p) => cmd[p].prog = "assign"
      /\ RemoveEnds(p) => cmd[p].prog = "rm"
      /\ MeasureNothing(p) => cmd[p].prog \in {"clear", "display"}
      /\ DisplayKeys(p) => cmd[p].prog = "display"
      /\ ClearEnds(p) => cmd[p].prog = "clear"
  BY DEF AssignEnds, RemoveEnds, MeasureNothing, DisplayKeys, ClearEnds, Done, FileInv, Places
<1>7. cmd[p].prog = prog
  BY DEF Succeeds
<1> QED
  BY <1>2, <1>3, <1>5, <1>6, <1>7 DEF Ends

(* assign-tag never claims a success it did not have: when it succeeds,    *)
(* each tag of its command line was set by it or removed by another        *)
(* process since.                                                          *)
THEOREM AssignSucceedsWhole == HSpec => AssignedOnSuccess
<1>1. ASSUME FileInv, [HNext]_historyVars, NEW p \in Proc, Succeeds(p, "assign")
      PROVE  KeysOf(p, Range(cmd[p].tags)) \subseteq attrs'[cmd[p].file] \cup removed[p]
  <2>1. AssignEnds(p) /\ attrs' = attrs
    BY <1>1, SuccessIsAnEnd
  <2>2. pc[p] = "assigning" /\ Range(todo[p]) = {}
    BY <2>1 DEF AssignEnds, Done, Range
  <2> QED
    BY <1>1, <2>1, <2>2 DEF FileInv, Progress, Assigned
<1>2. FileInv /\ [HNext]_historyVars =>
           \A p \in Proc : Succeeds(p, "assign") =>
               KeysOf(p, Range(cmd[p].tags)) \subseteq attrs'[cmd[p].file] \cup removed[p]
  BY <1>1
<1> QED
  BY <1>2, FileInvariant, PTL DEF HSpec, AssignedOnSuccess

(* Nor does rm-tag: a failed removal is remembered to the end.             *)
THEOREM RemoveSucceedsWhole == HSpec => RemovedOnSuccess
<1>1. ASSUME FileInv, [HNext]_historyVars, NEW p \in Proc, Succeeds(p, "rm")
      PROVE  KeysOf(p, Range(cmd[p].tags)) \cap attrs'[cmd[p].file] \subseteq added[p]
  <2>1. RemoveEnds(p) /\ ~ failed[p] /\ attrs' = attrs
    BY <1>1, SuccessIsAnEnd
  <2>2. pc[p] = "removing" /\ Range(todo[p]) = {}
    BY <2>1 DEF RemoveEnds, Done, Range
  <2> QED
    BY <1>1, <2>1, <2>2 DEF FileInv, Progress, Removed
<1>2. FileInv /\ [HNext]_historyVars =>
           \A p \in Proc : Succeeds(p, "rm") =>
               KeysOf(p, Range(cmd[p].tags)) \cap attrs'[cmd[p].file] \subseteq added[p]
  BY <1>1
<1> QED
  BY <1>2, FileInvariant, PTL DEF HSpec, RemovedOnSuccess

(* rm-tag -c leaves only what was set while it ran and what it could not   *)
(* remove, though it measures, lists and removes in separate steps.        *)
THEOREM ClearSucceedsWhole == HSpec => ClearedOnSuccess
<1>1. ASSUME FileInv, [HNext]_historyVars, NEW p \in Proc, Succeeds(p, "clear")
      PROVE  KeysOf(p, Name \ {EmptyName}) \cap attrs'[cmd[p].file]
                 \subseteq added[p] \cup missed[p]
  <2>1. (ClearEnds(p) \/ MeasureNothing(p)) /\ attrs' = attrs
    BY <1>1, SuccessIsAnEnd
  <2>2. CASE ClearEnds(p)
    <3>1. pc[p] = "clearing" /\ Range(todo[p]) = {}
      BY <2>2 DEF ClearEnds, Done, Range
    <3> QED
      BY <1>1, <2>1, <3>1 DEF FileInv, Progress, Cleared
  <2>3. CASE MeasureNothing(p)
    BY <2>1, <2>3 DEF MeasureNothing
  <2> QED
    BY <2>1, <2>2, <2>3
<1>2. FileInv /\ [HNext]_historyVars =>
           \A p \in Proc : Succeeds(p, "clear") =>
               KeysOf(p, Name \ {EmptyName}) \cap attrs'[cmd[p].file]
                   \subseteq added[p] \cup missed[p]
  BY <1>1
<1> QED
  BY <1>2, FileInvariant, PTL DEF HSpec, ClearedOnSuccess

(* The attributes of a file change only by a step of a process that has    *)
(* one of its user's keys in hand.                                         *)
LEMMA ChangesAreOwn ==
    ASSUME FileInv, [HNext]_historyVars, NEW f \in File, NEW k,
           k \in SymDiff(attrs[f], attrs'[f])
    PROVE  \E p \in Proc :
               /\ SetTag(p) \/ RemoveTag(p) \/ ClearTag(p)
               /\ pc[p] # "exited" /\ cmd[p].file = f /\ cmd[p].user = k.user
               /\ k = Head(todo[p])
<1>1. k \in attrs[f] <=> k \notin attrs'[f]
  BY DEF SymDiff
<1>2. PICK p \in Proc : SetTag(p) \/ RemoveTag(p) \/ ClearTag(p)
  <2>1. attrs' # attrs
    BY <1>1
  <2>2. CASE Next
    BY <2>1, <2>2 DEF Next, Step, Start, LoadConfig, LoadConfigFails, SetTagFails, AssignEnds,
       RemoveTagFails, RemoveEnds, MeasureList, MeasureNothing, ListKeys, DisplayKeys,
       ListFails, ClearEnds, Kill, Reconfigure, Exit
  <2>3. CASE UNCHANGED vars
    BY <2>1, <2>3 DEF vars
  <2> QED
    BY <2>2, <2>3, NextOfHistory
<1>3. pc[p] # "exited" /\ todo[p] # << >>
  BY <1>2 DEF SetTag, RemoveTag, ClearTag, At
<1>4. cmd[p].file = f /\ k = Head(todo[p])
  BY <1>1, <1>2 DEF SetTag, RemoveTag, ClearTag, FileInv, HistoryTypeOK, TypeOK
<1>5. k.user = cmd[p].user
  BY <1>3, <1>4, TailElements DEF FileInv, Progress, OwnKeys, HistoryTypeOK, TypeOK
<1> QED
  BY <1>2, <1>3, <1>4, <1>5

(* The commands of a user never change what others have on the same file.  *)
THEOREM OthersAreSafe == HSpec => OthersUntouched
<1>1. ASSUME FileInv, [HNext]_historyVars, NEW f \in File,
             NEW k \in SymDiff(attrs[f], attrs'[f])
      PROVE  \E p \in Proc : pc[p] # "exited" /\ cmd[p].user = k.user /\ cmd[p].file = f
  BY <1>1, ChangesAreOwn
<1>2. FileInv /\ [HNext]_historyVars =>
           \A f \in File : \A k \in SymDiff(attrs[f], attrs'[f]) :
               \E p \in Proc : pc[p] # "exited" /\ cmd[p].user = k.user /\ cmd[p].file = f
  BY <1>1
<1> QED
  BY <1>2, FileInvariant, PTL DEF HSpec, OthersUntouched

(* A tag that is set was assignable at some time since its process         *)
(* started, whatever happened to the configuration file since.             *)
THEOREM SetTagsAreKnown == HSpec => SetTagsWereAssignable
<1>1. ASSUME FileInv, [HNext]_historyVars, NEW f \in File, NEW k \in attrs'[f] \ attrs[f]
      PROVE  \E p \in Proc : pc[p] # "exited" /\ cmd[p].user = k.user /\ k.tag \in assignable[p]
  <2>1. k \in SymDiff(attrs[f], attrs'[f])
    BY <1>1 DEF SymDiff
  <2>2. PICK p \in Proc :
            /\ SetTag(p) \/ RemoveTag(p) \/ ClearTag(p)
            /\ pc[p] # "exited" /\ cmd[p].file = f /\ cmd[p].user = k.user
            /\ k = Head(todo[p])
    BY <1>1, <2>1, ChangesAreOwn
  <2>3. SetTag(p)
    BY <1>1, <2>2 DEF RemoveTag, ClearTag, FileInv, HistoryTypeOK, TypeOK
  <2>4. pc[p] = "assigning" /\ k.tag \in known[p]
    BY <2>2, <2>3 DEF SetTag, At
  <2> QED
    BY <1>1, <2>2, <2>4 DEF FileInv, Progress, Known
<1>2. FileInv /\ [HNext]_historyVars =>
           \A f \in File : \A k \in attrs'[f] \ attrs[f] :
               \E p \in Proc : pc[p] # "exited" /\ cmd[p].user = k.user /\ k.tag \in assignable[p]
  BY <1>1
<1> QED
  BY <1>2, FileInvariant, PTL DEF HSpec, SetTagsWereAssignable

=============================================================================
