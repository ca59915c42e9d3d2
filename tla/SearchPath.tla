----------------------------- MODULE SearchPath -----------------------------
(***************************************************************************)
(* The path of search-tag-file: one PascalBuffer, to which                 *)
(* list_correct_files appends the name of each entry and which it then     *)
(* shortens again, without writing a new 0.  stat, opendir, listxattr and  *)
(* printf read it as a string.                                             *)
(*                                                                         *)
(* The path changes with the steps of SearchTagFile and has no influence   *)
(* on them; PathNamesEntry says that they are right to ignore it.          *)
(***************************************************************************)
EXTENDS SearchTagFile, Buffers

CONSTANT
    NameLen         \* NameLen[e]: the length of the name of e

VARIABLE path

pathVars == <<vars, path>>

Entry == File \cup Dir

ASSUME NameLenAssumption == NameLen \in [Entry -> Nat \ {0}]

(* The characters of paths.  No name contains a 0.                         *)
Char == {"/"} \cup (Entry \X Nat)

ASSUME NulAssumption == Nul \notin Char

(* The characters of a name.                                               *)
NameOf(e) == [k \in 1 .. NameLen[e] |-> <<e, k>>]

append_to_path(b, e) == append_str_to_buffer(append_str_to_buffer(b, <<"/">>), NameOf(e))

(* path->str_length -= len + 1.                                            *)
Cut(b, e) == [b EXCEPT !.str_length = @ - (NameLen[e] + 1)]

(* The buffer display_files makes of the directory of the command line.    *)
display_files ==
    LET path_len == (NameLen[Top] + 2) * 2
    IN  [str          |-> Write(Memory(path_len), 0, Append(NameOf(Top), Nul)),
         str_length   |-> NameLen[Top],
         str_capacity |-> path_len]

PInit == Init /\ path = display_files

(* The entries of the innermost directory this step begins with: those it  *)
(* has done with, has entered, or measures.                                *)
Begins(e) ==
    /\ phase = "walking"
    /\ frames # << >>
    /\ e \in Current.left
    /\ \/ phase' = "listing" /\ file' = e
       \/ phase' # "listing" /\ Len(frames') = Len(frames) /\ e \notin Last(frames').left
       \/ Len(frames') > Len(frames) /\ Last(frames').dir = e

(* The path while e is looked at: it stays for as long as e is a directory *)
(* the walk is in, or a file whose keys are still to be listed.            *)
PathOf(e) == append_to_path(path, e)

PNext ==
    /\ Next
    /\ path' =
           IF \E e \in Entry : Begins(e)
           THEN LET e == CHOOSE e \in Entry : Begins(e)
                IN  IF phase' = "listing" \/ Len(frames') > Len(frames)
                    THEN PathOf(e) ELSE Cut(PathOf(e), e)
           ELSE IF phase = "listing" /\ phase' # "listing" THEN Cut(path, file)
           ELSE IF Len(frames) > 1 /\ Len(frames') < Len(frames) THEN Cut(path, Current.dir)
           ELSE path

PSpec == PInit /\ [][PNext]_pathVars

-----------------------------------------------------------------------------

(* The names from the directory of the command line to the entry e of the  *)
(* innermost directory, with a slash before each.                          *)
FullPath(e) ==
    FlattenSeq([i \in DOMAIN frames |-> NameOf(frames[i].dir) \o <<"/">>]) \o NameOf(e)

(* stat, opendir, listxattr and printf get the name of the entry that is   *)
(* looked at, whatever longer names the buffer has held and however deep   *)
(* the walk has been meanwhile: what a shorter name leaves of a longer one *)
(* is never read, and no name outgrows the buffer.                         *)
PathNamesEntry ==
    [][/\ \A e \in Entry : Begins(e) => CString(path'.str) = FullPath(e)
       /\ phase' = "listing" => CString(path'.str) = FullPath(file')]_pathVars

=============================================================================
