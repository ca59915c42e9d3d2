------------------------------ MODULE FileTags ------------------------------
(***************************************************************************)
(* The tags of files, and the commands that change and show them:          *)
(* assign-tag, rm-tag and display-file-tag (src/assign-tag.c,              *)
(* src/rm-tag.c, src/display-file-tag.c).                                  *)
(*                                                                         *)
(* A tag of a file is an extended attribute with an empty value; its key   *)
(* is "user.tagsys6.", the number of the user, "." and the tag.  So users  *)
(* who can open the same file keep their tags apart.  A key is the pair    *)
(* [user, tag] here; the attributes of other programs, which the commands  *)
(* see in the lists of keys too, are the keys of a user who runs none of   *)
(* them.                                                                   *)
(*                                                                         *)
(* Each system call on the attributes is one step.  The configuration file *)
(* is read in one step, and changes as manage-tag may change it.  Files    *)
(* can be opened, and a list of keys has one unit of length for each key.  *)
(***************************************************************************)
EXTENDS Naturals, Sequences, FiniteSets, SequencesExt

CONSTANTS
    Proc,           \* processes
    User,
    File,
    Name,           \* the names a tag can have
    EmptyName,      \* the empty string: manage-tag -a "" makes a tag of it
    Command,        \* what users start: assign-tag, rm-tag, rm-tag -c, display-file-tag
    Events          \* what happens around the commands: "kill" a process, "io" a
                    \* system call fails, "edit" a configuration file changes

CommandLines ==
    [user : User, prog : {"assign", "rm", "clear", "display"}, file : File, tags : Seq(Name)]

ASSUME CommandAssumption == Command \subseteq CommandLines

ASSUME EventsAssumption == Events \subseteq {"kill", "io", "edit"}

NoCommand == [prog |-> "none"]

Key == [user : User, tag : Name]

(* A key has a limited length.                                             *)
ASSUME FiniteAssumption == IsFiniteSet(Key)

Runner == {c.user : c \in Command}

(* A configuration file, with the tags a process finds assignable in it:   *)
(* none if the file cannot be loaded.                                      *)
Config == {c \in [loads : BOOLEAN, assignable : SUBSET Name] : c.loads \/ c.assignable = {}}

VARIABLES
    attrs,      \* attrs[f]: the keys of the attributes of the file f
    config,     \* config[u]: the configuration file of a user u who runs commands
    pc,         \* pc[p]: where the process p is in main()
    cmd,        \* cmd[p]: its command line
    todo,       \* todo[p]: the keys it has not reached yet
    known,      \* known[p]: the assignable tags of the tree in its memory
    buflen,     \* buflen[p]: the length of the list of keys when p measured it
    failed,     \* failed[p]: error_occured of rm-tag
    status      \* status[p]: how p, or the process that was p before, ended

vars == <<attrs, config, pc, cmd, todo, known, buflen, failed, status>>

TypeOK ==
    /\ attrs \in [File -> SUBSET Key]
    /\ config \in [Runner -> Config]
    /\ pc \in [Proc -> {"exited", "loading", "assigning", "removing",
                        "measuring", "listing", "clearing"}]
    /\ cmd \in [Proc -> Command \cup {NoCommand}]
    /\ todo \in [Proc -> Seq(Key)]
    /\ known \in [Proc -> SUBSET Name]
    /\ buflen \in [Proc -> Nat]
    /\ failed \in [Proc -> BOOLEAN]
    /\ status \in [Proc -> {"none", "EXIT_SUCCESS", "EXIT_FAILURE", "killed"}]

(* Files may have any attributes before, and users any tags.               *)
Init ==
    /\ attrs \in [File -> SUBSET Key]
    /\ config \in [Runner -> Config]
    /\ pc = [p \in Proc |-> "exited"]
    /\ cmd = [p \in Proc |-> NoCommand]
    /\ todo = [p \in Proc |-> << >>]
    /\ known = [p \in Proc |-> {}]
    /\ buflen = [p \in Proc |-> 0]
    /\ failed = [p \in Proc |-> FALSE]
    /\ status = [p \in Proc |-> "none"]

-----------------------------------------------------------------------------
(***************************************************************************)
(* The start and the end of a process.                                     *)
(***************************************************************************)

FirstStep(prog) ==
    CASE prog = "assign" -> "loading"
      [] prog = "rm" -> "removing"
      [] prog \in {"clear", "display"} -> "measuring"

(* Mutant of KeyOf: the prefix does not name the user.                     *)
KeyOf_NoUser(u, tag) == [tag |-> tag]

KeyOf(u, tag) == [user |-> u, tag |-> tag]

Start(p, c) ==
    /\ pc[p] = "exited"
    /\ pc' = [pc EXCEPT ![p] = FirstStep(c.prog)]
    /\ cmd' = [cmd EXCEPT ![p] = c]
    /\ todo' = [todo EXCEPT ![p] = [i \in DOMAIN c.tags |-> KeyOf(c.user, c.tags[i])]]
    /\ status' = [status EXCEPT ![p] = "none"]
    /\ UNCHANGED <<attrs, config, known, buflen, failed>>

Exit(p, s) ==
    /\ pc' = [pc EXCEPT ![p] = "exited"]
    /\ cmd' = [cmd EXCEPT ![p] = NoCommand]
    /\ todo' = [todo EXCEPT ![p] = << >>]
    /\ known' = [known EXCEPT ![p] = {}]
    /\ buflen' = [buflen EXCEPT ![p] = 0]
    /\ failed' = [failed EXCEPT ![p] = FALSE]
    /\ status' = [status EXCEPT ![p] = s]
    /\ UNCHANGED <<attrs, config>>

(* Mutant of TagKeys: any prefix of the length of the user's own one will  *)
(* do.                                                                     *)
TagKeys_AnyUser(p, keys) == {k \in keys : k.tag # EmptyName}

(* The keys of a list that name a tag of the user of p: the loops look for *)
(* keys that begin with the prefix of the user and are longer than that.   *)
TagKeys(p, keys) == {k \in keys : k.user = cmd[p].user /\ k.tag # EmptyName}

(* The file of p has the attribute p has reached.                          *)
Here(p) == Head(todo[p]) \in attrs[cmd[p].file]

(* p is in the loop over its keys, and has one to handle, or none.         *)
At(p, step) == pc[p] = step /\ todo[p] # << >>

Done(p, step) == pc[p] = step /\ todo[p] = << >>

Advance(p) ==
    /\ todo' = [todo EXCEPT ![p] = Tail(@)]
    /\ UNCHANGED <<config, pc, cmd, known, buflen, status>>

-----------------------------------------------------------------------------
(***************************************************************************)
(* assign-tag.                                                             *)
(***************************************************************************)

LoadConfig(p) ==
    /\ pc[p] = "loading"
    /\ config[cmd[p].user].loads
    /\ known' = [known EXCEPT ![p] = config[cmd[p].user].assignable]
    /\ pc' = [pc EXCEPT ![p] = "assigning"]
    /\ UNCHANGED <<attrs, config, cmd, todo, buflen, failed, status>>

(* On the way out main() frees a tree that was never set if the file could *)
(* not be opened or read: the process may also die there.                  *)
LoadConfigFails(p) ==
    /\ pc[p] = "loading"
    /\ ~ config[cmd[p].user].loads
    /\ \E s \in {"EXIT_FAILURE", "killed"} : Exit(p, s)

(* Mutant of SetTag: the tag is not looked up.                             *)
SetTag_Unchecked(p) ==
    /\ At(p, "assigning")
    /\ ~ Here(p)
    /\ attrs' = [attrs EXCEPT ![cmd[p].file] = @ \cup {Head(todo[p])}]
    /\ Advance(p)
    /\ UNCHANGED failed

(* check_is_assignable, then fsetxattr with XATTR_CREATE.                  *)
SetTag(p) ==
    /\ At(p, "assigning")
    /\ Head(todo[p]).tag \in known[p]
    /\ ~ Here(p)
    /\ attrs' = [attrs EXCEPT ![cmd[p].file] = @ \cup {Head(todo[p])}]
    /\ Advance(p)
    /\ UNCHANGED failed

(* Mutant of SetTagFails: the tags that remain are handled.                *)
SetTagFails_GoesOn(p) ==
    /\ At(p, "assigning")
    /\ Head(todo[p]).tag \notin known[p] \/ Here(p) \/ "io" \in Events
    /\ Advance(p)
    /\ UNCHANGED <<attrs, failed>>

(* The first tag that cannot be set ends the process; those before stay.   *)
SetTagFails(p) ==
    /\ At(p, "assigning")
    /\ Head(todo[p]).tag \notin known[p] \/ Here(p) \/ "io" \in Events
    /\ Exit(p, "EXIT_FAILURE")

AssignEnds(p) == Done(p, "assigning") /\ Exit(p, "EXIT_SUCCESS")

-----------------------------------------------------------------------------
(***************************************************************************)
(* rm-tag.                                                                 *)
(***************************************************************************)

RemoveTag(p) ==
    /\ At(p, "removing")
    /\ Here(p)
    /\ attrs' = [attrs EXCEPT ![cmd[p].file] = @ \ {Head(todo[p])}]
    /\ Advance(p)
    /\ UNCHANGED failed

(* Mutant of RemoveTagFails: the error is not remembered.                  *)
RemoveTagFails_Forgotten(p) ==
    /\ At(p, "removing")
    /\ ~ Here(p) \/ "io" \in Events
    /\ Advance(p)
    /\ UNCHANGED <<attrs, failed>>

(* The other tags are still removed, but the process will fail.            *)
RemoveTagFails(p) ==
    /\ At(p, "removing")
    /\ ~ Here(p) \/ "io" \in Events
    /\ failed' = [failed EXCEPT ![p] = TRUE]
    /\ Advance(p)
    /\ UNCHANGED attrs

RemoveEnds(p) ==
    /\ Done(p, "removing")
    /\ Exit(p, IF failed[p] THEN "EXIT_FAILURE" ELSE "EXIT_SUCCESS")

-----------------------------------------------------------------------------
(***************************************************************************)
(* rm-tag -c and display-file-tag: flistxattr for the length of the list,  *)
(* then for the list.                                                      *)
(***************************************************************************)

MeasureList(p) ==
    /\ pc[p] = "measuring"
    /\ attrs[cmd[p].file] # {}
    /\ buflen' = [buflen EXCEPT ![p] = Cardinality(attrs[cmd[p].file])]
    /\ pc' = [pc EXCEPT ![p] = "listing"]
    /\ UNCHANGED <<attrs, config, cmd, todo, known, failed, status>>

MeasureNothing(p) ==
    /\ pc[p] = "measuring"
    /\ attrs[cmd[p].file] = {}
    /\ Exit(p, "EXIT_SUCCESS")

Fits(p) == Cardinality(attrs[cmd[p].file]) <= buflen[p]

(* Mutant of ListKeys: only as many keys as the buffer holds are returned. *)
ListKeys_Truncated(p) ==
    /\ pc[p] = "listing"
    /\ cmd[p].prog = "clear"
    /\ \E keys \in kSubset(Min({buflen[p], Cardinality(attrs[cmd[p].file])}),
                           attrs[cmd[p].file]) :
       \E s \in SetToSeqs(TagKeys(p, keys)) : todo' = [todo EXCEPT ![p] = s]
    /\ pc' = [pc EXCEPT ![p] = "clearing"]
    /\ UNCHANGED <<attrs, config, cmd, known, buflen, failed, status>>

(* The keys come in any order.                                             *)
ListKeys(p) ==
    /\ pc[p] = "listing"
    /\ cmd[p].prog = "clear"
    /\ Fits(p)
    /\ \E s \in SetToSeqs(TagKeys(p, attrs[cmd[p].file])) :
           todo' = [todo EXCEPT ![p] = s]
    /\ pc' = [pc EXCEPT ![p] = "clearing"]
    /\ UNCHANGED <<attrs, config, cmd, known, buflen, failed, status>>

(* display-file-tag prints the tags of TagKeys.                            *)
DisplayKeys(p) ==
    /\ pc[p] = "listing"
    /\ cmd[p].prog = "display"
    /\ Fits(p)
    /\ Exit(p, "EXIT_SUCCESS")

(* ERANGE: the list has become longer.  Or one of the two calls fails.     *)
ListFails(p) ==
    /\ \/ pc[p] = "listing" /\ ~ Fits(p)
       \/ pc[p] \in {"measuring", "listing"} /\ "io" \in Events
    /\ Exit(p, "EXIT_FAILURE")

(* Another process may have removed the tag since: an error is printed and *)
(* forgotten, like that of a call that fails and leaves the tag.           *)
ClearTag(p) ==
    /\ At(p, "clearing")
    /\ \/ attrs' = [attrs EXCEPT ![cmd[p].file] = @ \ {Head(todo[p])}]
       \/ "io" \in Events /\ UNCHANGED attrs
    /\ Advance(p)
    /\ UNCHANGED failed

ClearEnds(p) == Done(p, "clearing") /\ Exit(p, "EXIT_SUCCESS")

-----------------------------------------------------------------------------

Kill(p) ==
    /\ "kill" \in Events
    /\ pc[p] # "exited"
    /\ Exit(p, "killed")

(* The user runs manage-tag, or edits the file.                            *)
Reconfigure(u) ==
    /\ "edit" \in Events
    /\ \E c \in Config : config' = [config EXCEPT ![u] = c]
    /\ UNCHANGED <<attrs, pc, cmd, todo, known, buflen, failed, status>>

Step(p) ==
    \/ LoadConfig(p) \/ LoadConfigFails(p)
    \/ SetTag(p) \/ SetTagFails(p) \/ AssignEnds(p)
    \/ RemoveTag(p) \/ RemoveTagFails(p) \/ RemoveEnds(p)
    \/ MeasureList(p) \/ MeasureNothing(p) \/ ListKeys(p) \/ DisplayKeys(p) \/ ListFails(p)
    \/ ClearTag(p) \/ ClearEnds(p)

Next ==
    \/ \E p \in Proc :
          \/ \E c \in Command : Start(p, c)
          \/ Step(p)
          \/ Kill(p)
    \/ \E u \in Runner : Reconfigure(u)

Spec == Init /\ [][Next]_vars

=============================================================================
