----------------------------- MODULE ConfigFile -----------------------------
(***************************************************************************)
(* The configuration file on disk, shared by every process of the user,    *)
(* and the two functions of src/tag.c that read and write it:              *)
(* parse_config_file and write_config_file.  Neither takes a lock.         *)
(*                                                                         *)
(* parse_config_file reads the size of the file (fseek, ftell), then that  *)
(* many bytes (fread), then has cJSON parse them.  write_config_file       *)
(* truncates the file (fopen "w"), prints the tree into a stdio buffer and *)
(* lets fclose write the buffer from offset 0.  Other processes take steps *)
(* between those system calls, so each is a step here.                     *)
(*                                                                         *)
(* The text of a tree is taken to fit in one stdio buffer (4096 bytes, 80  *)
(* to 100 tags), so it reaches the file in one write.                      *)
(***************************************************************************)
EXTENDS TagTree

CONSTANT Proc       \* the processes that may use the file

VARIABLES
    disk,           \* what the file holds
    nbbytes,        \* nbbytes[p]: the size of the file when p measured it
    root            \* root[p]: the tree in the memory of p

configVars == <<disk, nbbytes, root>>

(* The file starts with the text of tree and is size long.  It is longer   *)
(* than that text when a longer text was there: a write does not truncate, *)
(* only fopen does.  An empty file has size 0, less than any text.         *)
Content == [tree : Tree, size : Nat]

Empty == [tree |-> Skeleton, size |-> 0]

ConfigTypeOK ==
    /\ disk \in Content
    /\ nbbytes \in [Proc -> Nat]
    /\ root \in [Proc -> Tree]

(* After "make install", and in a process that has not started.            *)
ConfigInit ==
    /\ disk = [tree |-> Skeleton, size |-> TextSize(Skeleton)]
    /\ nbbytes = [p \in Proc |-> 0]
    /\ root = [p \in Proc |-> Skeleton]

-----------------------------------------------------------------------------

(* fopen(filename, "r"), fseek, ftell, fseek.                              *)
MeasureConfig(p) ==
    /\ nbbytes' = [nbbytes EXCEPT ![p] = disk.size]
    /\ UNCHANGED <<disk, root>>

(* The TagError of the rest of parse_config_file on a file that was nb     *)
(* bytes long and holds c by now: a short read, or a text that stops       *)
(* before its last bracket, or one that is nested too deep.  What follows  *)
(* the last bracket is ignored: cJSON_ParseWithLength does not ask for the *)
(* end of the buffer.                                                      *)
parse_config_file(c, nb) ==
    CASE c.size < nb -> "LOAD_CONFIG_ERROR"
      [] c.size >= nb /\ nb >= TextSize(c.tree) /\ CanBeParsed(c.tree) -> "NO_ERROR"
      [] OTHER -> "PARSE_CONFIG_ERROR"

(* fread, fclose and cJSON_ParseWithLength, when they succeed.             *)
ParseConfig(p) ==
    /\ parse_config_file(disk, nbbytes[p]) = "NO_ERROR"
    /\ root' = [root EXCEPT ![p] = disk.tree]
    /\ UNCHANGED <<disk, nbbytes>>

(* fopen(filename, "w") with the tree t to print.                          *)
TruncateConfig(p, t) ==
    /\ disk' = Empty
    /\ root' = [root EXCEPT ![p] = t]
    /\ UNCHANGED nbbytes

(* What the file holds after the text of t was written at offset 0.        *)
Overwrite(c, t) ==
    [tree |-> t, size |-> Max({c.size, TextSize(t)})]

(* The memory of a process ends with it: free_tags_tree and exit.          *)
FreeConfig(p) ==
    /\ nbbytes' = [nbbytes EXCEPT ![p] = 0]
    /\ root' = [root EXCEPT ![p] = Skeleton]

-----------------------------------------------------------------------------

(* A process that starts now, with no other around, gets a tree.           *)
Readable == parse_config_file(disk, disk.size) = "NO_ERROR"

=============================================================================
