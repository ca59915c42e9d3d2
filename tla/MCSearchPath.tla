---------------------------- MODULE MCSearchPath ----------------------------
(***************************************************************************)
(* SearchPath for TLC, with the files and links of MCSearchTagFile.        *)
(***************************************************************************)
EXTENDS MCSearchTagFile, SearchPath

(* One name is longer than all the others together: the buffer grows for   *)
(* it and keeps what it leaves.                                            *)
Lengths == [e \in Entry |-> CASE e = f2 -> 6 [] e = sub -> 2 [] OTHER -> 1]

=============================================================================
