------------------------------ MODULE Buffers ------------------------------
(***************************************************************************)
(* PascalBuffer of src/tag.c: a string with its length, in memory that     *)
(* grows.                                                                  *)
(*                                                                         *)
(* Memory is the sequence of its cells: what is written beyond its end is  *)
(* lost here, and written over something else in C.                        *)
(***************************************************************************)
EXTENDS Naturals, Sequences, SequencesExt

CONSTANTS
    Nul,            \* the 0 that ends a string
    Garbage         \* what memory holds before it is written

Memory(n) == [i \in 1 .. n |-> Garbage]

(* realloc.                                                                *)
Resize(memory, n) ==
    [i \in 1 .. n |-> IF i \in DOMAIN memory THEN memory[i] ELSE Garbage]

(* memory, with the sequence s from the offset on, counted from 0.         *)
Write(memory, offset, s) ==
    [i \in DOMAIN memory |-> IF i - offset \in DOMAIN s THEN s[i - offset] ELSE memory[i]]

(* What C reads from the start of memory: all up to the first 0.  Without  *)
(* one it reads on, into whatever follows.                                 *)
CString(memory) ==
    LET end == SelectInSeq(memory, LAMBDA c : c = Nul)
    IN  IF end = 0 THEN Append(memory, Garbage) ELSE SubSeq(memory, 1, end - 1)

-----------------------------------------------------------------------------

extends_buffer(b, new_size) ==
    [b EXCEPT !.str = Resize(@, new_size), !.str_capacity = new_size]

(* Mutant of append_str_to_buffer: the 0 is not written.                   *)
append_str_to_buffer_NoEnd(b, s) ==
    LET need == b.str_length + Len(s) + 1
        c    == IF need >= b.str_capacity THEN extends_buffer(b, 2 * need) ELSE b
    IN  [c EXCEPT !.str = Write(@, b.str_length, s), !.str_length = @ + Len(s)]

append_str_to_buffer(b, s) ==
    LET need == b.str_length + Len(s) + 1
        c    == IF need >= b.str_capacity THEN extends_buffer(b, 2 * need) ELSE b
    IN  [c EXCEPT !.str = Write(@, b.str_length, Append(s, Nul)), !.str_length = @ + Len(s)]

=============================================================================
