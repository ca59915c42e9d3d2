----------------------------- MODULE JsonValue -----------------------------
(***************************************************************************)
(* cJSON_Print, cJSON_PrintUnformatted and cJSON_ParseWithLength           *)
(* (src/lib/cJSON.c) on the values a configuration file consists of.       *)
(*                                                                         *)
(* A text is a sequence of characters, told apart as far as the code does. *)
(***************************************************************************)
EXTENDS Naturals, Sequences, SequencesExt

CONSTANT NestingLimit   \* CJSON_NESTING_LIMIT

Character ==
    {"quote", "backslash", "slash", "star", "blank", "newline",
     "letter",          \* an n, and any other character of a name
     "word",            \* true or false
     "[", "]", "{", "}", ":", ","}

Layout == {"blank", "newline"}

String(s) == [kind |-> "string", chars |-> s]
Word == [kind |-> "word"]
Array(items) == [kind |-> "array", items |-> items]
Object(fields) == [kind |-> "object", items |-> fields]

-----------------------------------------------------------------------------
(***************************************************************************)
(* Printing, with or without layout.                                       *)
(***************************************************************************)

(* Mutant of Escape: only quotes and newlines are escaped.                 *)
Escape_NoBackslash(c) ==
    CASE c = "quote" -> <<"backslash", c>>
      [] c = "newline" -> <<"backslash", "letter">>
      [] OTHER -> <<c>>

Escape(c) ==
    CASE c \in {"quote", "backslash"} -> <<"backslash", c>>
      [] c = "newline" -> <<"backslash", "letter">>
      [] OTHER -> <<c>>

print_string(s) ==
    <<"quote">> \o FlattenSeq([i \in DOMAIN s |-> Escape(s[i])]) \o <<"quote">>

Repeat(c, n) == [i \in 1 .. n |-> c]

Only(condition, text) == IF condition THEN text ELSE << >>

RECURSIVE print_value(_, _, _)

print_array(items, depth, format) ==
    LET Item(i) ==
            print_value(items[i], depth + 1, format)
                \o Only(i < Len(items), <<",">> \o Only(format, <<"blank">>))
    IN  <<"[">> \o FlattenSeq([i \in DOMAIN items |-> Item(i)]) \o <<"]">>

print_object(fields, depth, format) ==
    LET Field(i) ==
            Only(format, Repeat("blank", depth + 1))
                \o print_string(fields[i].key) \o <<":">> \o Only(format, <<"blank">>)
                \o print_value(fields[i].value, depth + 1, format)
                \o Only(i < Len(fields), <<",">>) \o Only(format, <<"newline">>)
    IN  <<"{">> \o Only(format, <<"newline">>)
            \o FlattenSeq([i \in DOMAIN fields |-> Field(i)])
            \o Only(format, Repeat("blank", depth)) \o <<"}">>

print_value(v, depth, format) ==
    CASE v.kind = "string" -> print_string(v.chars)
      [] v.kind = "word" -> <<"word">>
      [] v.kind = "array" -> print_array(v.items, depth, format)
      [] v.kind = "object" -> print_object(v.items, depth, format)

cJSON_Print(v) == print_value(v, 0, TRUE)

cJSON_PrintUnformatted(v) == print_value(v, 0, FALSE)

-----------------------------------------------------------------------------
(***************************************************************************)
(* Parsing: the value at an offset and the offset behind it, as a set that *)
(* is empty when the text is refused.  Offsets count from 0, like those of *)
(* the buffer.                                                             *)
(***************************************************************************)

Parsed(value, offset) == {[value |-> value, offset |-> offset]}

Refused == {}

(* The outcomes of items, with one more item before theirs.                *)
Prepend(item, outcomes) == {[o EXCEPT !.value = <<item>> \o @] : o \in outcomes}

(* What lies behind the end is never accepted.                             *)
At(text, offset) == IF offset < Len(text) THEN text[offset + 1] ELSE "end"

(* At the end of the buffer it goes back to its last character.            *)
buffer_skip_whitespace(text, offset) ==
    LET next == SelectInSubSeq(text, offset + 1, Len(text), LAMBDA c : c \notin Layout)
    IN  IF offset >= Len(text) THEN offset
        ELSE IF next = 0 THEN Len(text) - 1 ELSE next - 1

(* A string, from the quote at the offset to the next that is not escaped. *)
parse_string(text, offset) ==
    LET chars[o \in Nat] ==
            LET c == At(text, o)
                e == At(text, o + 1)
            IN  CASE c = "end" -> Refused
                  [] c = "quote" -> Parsed(<< >>, o + 1)
                  [] c = "backslash" ->
                         IF e \in {"quote", "backslash", "slash"} THEN Prepend(e, chars[o + 2])
                         ELSE IF e = "letter" THEN Prepend("newline", chars[o + 2])
                         ELSE Refused
                  [] OTHER -> Prepend(c, chars[o + 1])
    IN  IF At(text, offset) = "quote" THEN chars[offset + 1] ELSE Refused

(* The name of a field and its value.  parse is the function parse_value.  *)
ParseField(text, offset, depth, parse) ==
    LET Colon(key) == buffer_skip_whitespace(text, key.offset)
        Value(key) == parse[buffer_skip_whitespace(text, Colon(key) + 1), depth]
        Field(key) == {[v EXCEPT !.value = [key |-> key.value, value |-> @]] : v \in Value(key)}
    IN  UNION {IF At(text, Colon(key)) = ":" THEN Field(key) ELSE Refused :
                   key \in parse_string(text, offset)}

(* An item of an array, or of an object, told apart by what ends them.     *)
ParseItem(text, offset, depth, end, parse) ==
    IF end = "]" THEN parse[offset, depth] ELSE ParseField(text, offset, depth, parse)

(* The loop of parse_array and parse_object, from the item at offset on.   *)
ParseItems(text, offset, depth, end, parse) ==
    LET items[o \in Nat] ==
            LET Behind(item) == buffer_skip_whitespace(text, item.offset)
                Rest(item) ==
                    CASE At(text, Behind(item)) = end -> Parsed(<<item.value>>, Behind(item) + 1)
                      [] At(text, Behind(item)) = "," -> Prepend(item.value, items[Behind(item) + 1])
                      [] OTHER -> Refused
            IN  UNION {Rest(item) :
                    item \in ParseItem(text, buffer_skip_whitespace(text, o), depth, end, parse)}
    IN  items[offset]

ParseNested(text, offset, depth, end, parse) ==
    LET first == buffer_skip_whitespace(text, offset + 1)
    IN  IF depth >= NestingLimit THEN Refused
        ELSE IF At(text, first) = end THEN Parsed(<< >>, first + 1)
        ELSE ParseItems(text, first, depth + 1, end, parse)

parse_array(text, offset, depth, parse) ==
    {[items EXCEPT !.value = Array(@)] : items \in ParseNested(text, offset, depth, "]", parse)}

parse_object(text, offset, depth, parse) ==
    {[items EXCEPT !.value = Object(@)] : items \in ParseNested(text, offset, depth, "}", parse)}

(* The value at each offset, for each depth it may have.                   *)
parse_value(text) ==
    LET parse[o \in Nat, depth \in Nat] ==
            CASE At(text, o) = "word" -> Parsed(Word, o + 1)
              [] At(text, o) = "quote" ->
                     {[s EXCEPT !.value = String(@)] : s \in parse_string(text, o)}
              [] At(text, o) = "[" -> parse_array(text, o, depth, parse)
              [] At(text, o) = "{" -> parse_object(text, o, depth, parse)
              [] OTHER -> Refused
    IN  parse

(* Mutant of cJSON_ParseWithLength: it asks for the end of the text.       *)
cJSON_ParseWithLength_Whole(text) ==
    LET value == parse_value(text)[buffer_skip_whitespace(text, 0), 0]
    IN  IF text = << >> THEN Refused ELSE {v \in value : v.offset = Len(text)}

(* What follows the value is not looked at.                                *)
cJSON_ParseWithLength(text) ==
    IF text = << >> THEN Refused
    ELSE parse_value(text)[buffer_skip_whitespace(text, 0), 0]

=============================================================================
