----------------------------- MODULE ManageTag -----------------------------
(***************************************************************************)
(* The command manage-tag (src/manage-tag.c): any number of processes of   *)
(* one user list and change the tag tree of the configuration file.  Each  *)
(* loads the whole tree, changes it in memory and writes the whole tree.   *)
(***************************************************************************)
EXTENDS ConfigFile

CONSTANTS
    Command,    \* the command lines processes are started with
    Faults      \* what may go wrong: "kill" a process, "io" an error of a file

(* -a and -A, -p and -P, -r, -l.  The capital letters make a tag that is   *)
(* not assignable.                                                         *)
CommandLines ==
         [op : {"a"}, tag : Name, assignable : BOOLEAN]
    \cup [op : {"p"}, parent : Name, tag : Name, assignable : BOOLEAN]
    \cup [op : {"r"}, tag : Name]
    \cup [op : {"l"}]

ASSUME CommandAssumption == Command \subseteq CommandLines

ASSUME FaultsAssumption == Faults \subseteq {"kill", "io"}

NoCommand == [op |-> "none"]

VARIABLES
    pc,         \* pc[p]: where process p is in main()
    cmd,        \* cmd[p]: its command line
    status      \* status[p]: how p, or the process that was p before, ended

vars == <<disk, nbbytes, root, pc, cmd, status>>

TypeOK ==
    /\ ConfigTypeOK
    /\ pc \in [Proc -> {"exited", "parsing", "parsed", "writing"}]
    /\ cmd \in [Proc -> Command \cup {NoCommand}]
    /\ status \in [Proc -> {"none", "EXIT_SUCCESS", "EXIT_FAILURE", "killed"}]

Init ==
    /\ ConfigInit
    /\ pc = [p \in Proc |-> "exited"]
    /\ cmd = [p \in Proc |-> NoCommand]
    /\ status = [p \in Proc |-> "none"]

-----------------------------------------------------------------------------
(***************************************************************************)
(* One process: main() up to the command.                                  *)
(***************************************************************************)

(* A process starts and measures the file.                                 *)
Start(p, c) ==
    /\ pc[p] = "exited"
    /\ MeasureConfig(p)
    /\ pc' = [pc EXCEPT ![p] = "parsing"]
    /\ cmd' = [cmd EXCEPT ![p] = c]
    /\ status' = [status EXCEPT ![p] = "none"]

(* The process ends with status s.                                         *)
Exit(p, s) ==
    /\ FreeConfig(p)
    /\ pc' = [pc EXCEPT ![p] = "exited"]
    /\ cmd' = [cmd EXCEPT ![p] = NoCommand]
    /\ status' = [status EXCEPT ![p] = s]

Load(p) ==
    /\ pc[p] = "parsing"
    /\ ParseConfig(p)
    /\ pc' = [pc EXCEPT ![p] = "parsed"]
    /\ UNCHANGED <<cmd, status>>

(* Mutant of LoadFails: the command goes on, with no tags.                 *)
LoadFails_GoesOn(p) ==
    /\ pc[p] = "parsing"
    /\ parse_config_file(disk, nbbytes[p]) # "NO_ERROR"
    /\ pc' = [pc EXCEPT ![p] = "parsed"]
    /\ UNCHANGED <<cmd, status, disk, nbbytes, root>>

(* The file cannot be opened or read, or not be parsed.  The process may   *)
(* die of it: parse_config_file asserts that a read that failed got all    *)
(* the bytes, and print_tag_error prints what cJSON_GetErrorPtr left as a  *)
(* pointer into the buffer that parse_config_file has freed.               *)
LoadFails(p) ==
    /\ pc[p] = "parsing"
    /\ "io" \in Faults \/ parse_config_file(disk, nbbytes[p]) # "NO_ERROR"
    /\ \E s \in {"EXIT_FAILURE", "killed"} : Exit(p, s)
    /\ UNCHANGED disk

-----------------------------------------------------------------------------
(***************************************************************************)
(* The commands, on the tree in memory.  get_tag_checked finds a tag if    *)
(* get_tag does: a tree of this model is never an INVALID_CONFIG_FILE.     *)
(***************************************************************************)

Runs(p, op) == pc[p] = "parsed" /\ cmd[p].op = op

Has(p, tag) == get_tag(root[p], tag) # 0

(* write_config_file up to the truncation.  If the file cannot be opened   *)
(* the function returns LOAD_CONFIG_ERROR, which its callers do not look   *)
(* at: the process then succeeds without having written.                   *)
Save(p, t) ==
    \/ /\ TruncateConfig(p, t)
       /\ pc' = [pc EXCEPT ![p] = "writing"]
       /\ UNCHANGED <<cmd, status>>
    \/ /\ "io" \in Faults
       /\ Exit(p, "EXIT_SUCCESS")
       /\ UNCHANGED disk

AddTag(p) ==
    /\ Runs(p, "a")
    /\ ~ Has(p, cmd[p].tag)
    /\ Save(p, add_tag(root[p], cmd[p].tag, cmd[p].assignable))

(* Mutant of AddToParent: only the parent is looked up.                    *)
AddToParent_NoLookup(p) ==
    /\ Runs(p, "p")
    /\ Has(p, cmd[p].parent)
    /\ Save(p, add_to_parent(root[p], get_tag(root[p], cmd[p].parent),
                             cmd[p].tag, cmd[p].assignable))

AddToParent(p) ==
    /\ Runs(p, "p")
    /\ Has(p, cmd[p].parent)
    /\ ~ Has(p, cmd[p].tag)
    /\ Save(p, add_to_parent(root[p], get_tag(root[p], cmd[p].parent),
                             cmd[p].tag, cmd[p].assignable))

RemoveTag(p) ==
    /\ Runs(p, "r")
    /\ Has(p, cmd[p].tag)
    /\ Save(p, remove_tag(root[p], get_tag(root[p], cmd[p].tag)))

ListTags(p) ==
    /\ Runs(p, "l")
    /\ Exit(p, "EXIT_SUCCESS")
    /\ UNCHANGED disk

(* The tag to add exists, or its parent or the tag to remove does not.     *)
Refuse(p) ==
    /\ \/ Runs(p, "a") /\ Has(p, cmd[p].tag)
       \/ Runs(p, "p") /\ (~ Has(p, cmd[p].parent) \/ Has(p, cmd[p].tag))
       \/ Runs(p, "r") /\ ~ Has(p, cmd[p].tag)
    /\ Exit(p, "EXIT_FAILURE")
    /\ UNCHANGED disk

-----------------------------------------------------------------------------
(***************************************************************************)
(* The end of write_config_file, and of the process.                       *)
(***************************************************************************)

(* Mutant of Flush: the process ends without closing the stream.           *)
Flush_NotClosed(p) ==
    /\ pc[p] = "writing"
    /\ Exit(p, "EXIT_SUCCESS")
    /\ UNCHANGED disk

(* fclose writes the stdio buffer.                                         *)
Flush(p) ==
    /\ pc[p] = "writing"
    /\ disk' = Overwrite(disk, root[p])
    /\ Exit(p, "EXIT_SUCCESS")

(* The write of fclose fails (full disk, quota, I/O error).  fwrite has    *)
(* returned len, the result of fclose is dropped: the process succeeds.    *)
FlushFails(p) ==
    /\ "io" \in Faults
    /\ pc[p] = "writing"
    /\ Exit(p, "EXIT_SUCCESS")
    /\ UNCHANGED disk

(* The process dies; what is in its stdio buffer is lost.                  *)
Kill(p) ==
    /\ "kill" \in Faults
    /\ pc[p] # "exited"
    /\ Exit(p, "killed")
    /\ UNCHANGED disk

Step(p) ==
    \/ Load(p) \/ LoadFails(p)
    \/ AddTag(p) \/ AddToParent(p) \/ RemoveTag(p) \/ ListTags(p) \/ Refuse(p)
    \/ Flush(p) \/ FlushFails(p)

Next ==
    \E p \in Proc :
        \/ \E c \in Command : Start(p, c)
        \/ Step(p)
        \/ Kill(p)

Spec == Init /\ [][Next]_vars

(* A process that has started runs on: it never waits for another one, and *)
(* the system's scheduler gives every process a turn.  No fairness for     *)
(* Start, nor for Kill.                                                    *)
Fairness == \A p \in Proc : WF_vars(Step(p))

FairSpec == Spec /\ Fairness

-----------------------------------------------------------------------------
(***************************************************************************)
(* Properties.                                                             *)
(***************************************************************************)

(* No tree of the system has two tags of the same name, whatever the       *)
(* processes do at the same time: each checks the name against the tree it *)
(* loaded, which need not be the tree its own tree replaces.               *)
NoDuplicateTag == Unique(disk.tree) /\ \A p \in Proc : Unique(root[p])

(* Every tree is a forest: removing a tag from the middle of the tree and  *)
(* moving its children never leaves a tag deeper than a child of the tag   *)
(* before it.                                                              *)
Forest == WellNested(disk.tree) /\ \A p \in Proc : WellNested(root[p])

Writing == \E p \in Proc : pc[p] = "writing"

(* If nothing fails and no tag is nested too deep, a process that finds no *)
(* other one between its truncation and its write can load the file, even  *)
(* when writes of different lengths came in any order.                     *)
ReadableWhenQuiet == ~ Writing => Readable

(* The file is unreadable, and no process has a tree it could still write. *)
Dead == ~ Readable /\ \A p \in Proc : pc[p] \in {"exited", "parsing"}

(* No command repairs a file that a killed process left empty, that holds  *)
(* nothing after an output error, or that holds tags nested too deep: each *)
(* has to load the file first.  Nor does one that measured the file while  *)
(* it was still whole.                                                     *)
NoRepair == [][Dead => Dead' /\ disk' = disk]_vars

(* If nothing fails, a truncated file is written again: the time in which  *)
(* other commands cannot load it ends.                                     *)
TruncationEnds == disk.size = 0 ~> disk.size > 0

=============================================================================
