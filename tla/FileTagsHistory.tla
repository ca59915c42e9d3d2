-------------------------- MODULE FileTagsHistory --------------------------
(***************************************************************************)
(* FileTags with history variables: what changed while a process ran.      *)
(* With them, what a command has done when it succeeds can be said even    *)
(* though other processes change the same file at the same time.           *)
(***************************************************************************)
EXTENDS FileTags

VARIABLES
    added,          \* added[p]: the keys set on the file of p since p started
    removed,        \* removed[p]: the keys removed from it
    missed,         \* missed[p]: the keys rm-tag -c tried to remove and could not
    assignable      \* assignable[p]: the tags of p's user that were assignable at
                    \* some time since then

historyVars == <<vars, added, removed, missed, assignable>>

NoHistory == [p \in Proc |-> {}]

HistoryTypeOK ==
    /\ TypeOK
    /\ added \in [Proc -> SUBSET Key]
    /\ removed \in [Proc -> SUBSET Key]
    /\ missed \in [Proc -> SUBSET Key]
    /\ assignable \in [Proc -> SUBSET Name]

HInit ==
    /\ Init
    /\ added = NoHistory
    /\ removed = NoHistory
    /\ missed = NoHistory
    /\ assignable = NoHistory

(* The sets of p start empty when p does, and become so when it ends.      *)
Runs(p) == pc[p] # "exited" /\ pc'[p] # "exited"

(* This step of p is its attempt to remove k under -c.                     *)
Tried(p, k) == At(p, "clearing") /\ todo'[p] # todo[p] /\ k = Head(todo[p])

HNext ==
    /\ Next
    /\ added' = [p \in Proc |->
           IF ~ Runs(p) \/ cmd[p].prog = "assign" THEN {}
           ELSE added[p] \cup (attrs'[cmd[p].file] \ attrs[cmd[p].file])]
    /\ removed' = [p \in Proc |->
           IF ~ Runs(p) \/ cmd[p].prog # "assign" THEN {}
           ELSE removed[p] \cup (attrs[cmd[p].file] \ attrs'[cmd[p].file])]
    /\ missed' = [p \in Proc |->
           IF ~ Runs(p) THEN {}
           ELSE missed[p] \cup {k \in attrs'[cmd[p].file] : Tried(p, k)}]
    /\ assignable' = [p \in Proc |->
           IF pc'[p] \notin {"loading", "assigning"} THEN {}
           ELSE assignable[p] \cup config'[cmd'[p].user].assignable]

HSpec == HInit /\ [][HNext]_historyVars

-----------------------------------------------------------------------------

Succeeds(p, prog) ==
    cmd[p].prog = prog /\ pc'[p] = "exited" /\ status'[p] = "EXIT_SUCCESS"

KeysOf(p, tags) == {KeyOf(cmd[p].user, n) : n \in tags}

(* assign-tag succeeds only if the file has every tag of its command line, *)
(* but for those another process removed meanwhile: no failed or skipped   *)
(* tag goes unnoticed.                                                     *)
AssignedOnSuccess ==
    [][\A p \in Proc : Succeeds(p, "assign") =>
           KeysOf(p, Range(cmd[p].tags)) \subseteq attrs'[cmd[p].file] \cup removed[p]
      ]_historyVars

(* rm-tag succeeds only if the file has none of the tags of its command    *)
(* line, but for those another process set again meanwhile.                *)
RemovedOnSuccess ==
    [][\A p \in Proc : Succeeds(p, "rm") =>
           KeysOf(p, Range(cmd[p].tags)) \cap attrs'[cmd[p].file] \subseteq added[p]
      ]_historyVars

(* rm-tag -c lists the keys once, after it measured the list, and removes  *)
(* them one by one: when it succeeds, the tags that are left were set      *)
(* while it ran, or are those it printed an error for and went on: no tag  *)
(* escapes because the list changed under it.  The tag "" is not among     *)
(* those it looks at.                                                      *)
ClearedOnSuccess ==
    [][\A p \in Proc : Succeeds(p, "clear") =>
           KeysOf(p, Name \ {EmptyName}) \cap attrs'[cmd[p].file] \subseteq added[p] \cup missed[p]
      ]_historyVars

(* "The specified tag(s) must be present in the user's configuration       *)
(* file": a tag that is set was there, and assignable, at some time since  *)
(* assign-tag started, though it need not be any more.                     *)
SetTagsWereAssignable ==
    [][\A f \in File : \A k \in attrs'[f] \ attrs[f] :
           \E p \in Proc : pc[p] # "exited" /\ cmd[p].user = k.user /\ k.tag \in assignable[p]]_historyVars

(* No command changes the tags of another user, or the attributes of other *)
(* programs, on a file they share.                                         *)
OthersUntouched ==
    [][\A f \in File : \A k \in SymDiff(attrs[f], attrs'[f]) :
           \E p \in Proc : pc[p] # "exited" /\ cmd[p].user = k.user /\ cmd[p].file = f
      ]_historyVars

=============================================================================
