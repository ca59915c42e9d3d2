------------------------------ MODULE JsonText ------------------------------
(***************************************************************************)
(* The text of the configuration file: how the tags get through            *)
(* cJSON_Print and cJSON_Minify of write_config_file and back through the  *)
(* parser of parse_config_file (src/lib/cJSON.c).                          *)
(*                                                                         *)
(* cJSON_Minify changes the text in place, one turn of a loop at a time;   *)
(* printing and parsing are operators of JsonValue.  Control characters    *)
(* of names are modelled by the newline.                                   *)
(***************************************************************************)
EXTENDS JsonValue

CONSTANT Documents      \* the tags the file may hold: [name, children] in sequences

NameCharacter == Character \ {"word"}

VARIABLES
    document,   \* the tags
    input,      \* the text from the pointer json of cJSON_Minify on
    output,     \* the text before its pointer into
    mode        \* the function it is in

vars == <<document, input, output, mode>>

(* The objects of some tags, in an array.                                  *)
RECURSIVE ValueOf(_)
ValueOf(tags) ==
    LET Field(value) == [key |-> <<"letter">>, value |-> value]
        new_tag(tag) == Object(<<Field(String(tag.name)), Field(Word),
                                 Field(ValueOf(tag.children))>>)
    IN  Array([i \in DOMAIN tags |-> new_tag(tags[i])])

-----------------------------------------------------------------------------
(***************************************************************************)
(* cJSON_Minify, one turn of a loop at a time.                             *)
(***************************************************************************)

Init ==
    /\ document \in Documents
    /\ input = cJSON_Print(ValueOf(document))
    /\ output = << >>
    /\ mode = "cJSON_Minify"

Starts(text) == IsPrefix(text, input)

Skip(n) == input' = SubSeq(input, n + 1, Len(input))

Drop(n) == Skip(n) /\ UNCHANGED <<document, output>>

Copy(n) == Skip(n) /\ output' = output \o SubSeq(input, 1, n) /\ UNCHANGED document

In(function) == mode = function /\ input # << >>

DropLayout ==
    /\ In("cJSON_Minify")
    /\ Head(input) \in Layout
    /\ Drop(1)
    /\ UNCHANGED mode

DropSlash ==
    /\ In("cJSON_Minify")
    /\ Head(input) = "slash"
    /\ ~ Starts(<<"slash", "slash">>) /\ ~ Starts(<<"slash", "star">>)
    /\ Drop(1)
    /\ UNCHANGED mode

OpenOnelineComment ==
    /\ In("cJSON_Minify")
    /\ Starts(<<"slash", "slash">>)
    /\ Drop(2)
    /\ mode' = "skip_oneline_comment"

OpenMultilineComment ==
    /\ In("cJSON_Minify")
    /\ Starts(<<"slash", "star">>)
    /\ Drop(2)
    /\ mode' = "skip_multiline_comment"

OpenString ==
    /\ In("cJSON_Minify")
    /\ Head(input) = "quote"
    /\ Copy(1)
    /\ mode' = "minify_string"

CopyOther ==
    /\ In("cJSON_Minify")
    /\ Head(input) \notin Layout \cup {"slash", "quote"}
    /\ Copy(1)
    /\ UNCHANGED mode

skip_oneline_comment ==
    /\ In("skip_oneline_comment")
    /\ Drop(1)
    /\ mode' = IF Head(input) = "newline" THEN "cJSON_Minify" ELSE mode

skip_multiline_comment ==
    /\ In("skip_multiline_comment")
    /\ IF Starts(<<"star", "slash">>)
       THEN Drop(2) /\ mode' = "cJSON_Minify"
       ELSE Drop(1) /\ UNCHANGED mode

CloseString ==
    /\ In("minify_string")
    /\ Head(input) = "quote"
    /\ Copy(1)
    /\ mode' = "cJSON_Minify"

(* Mutant of CopyEscapedQuote: only the backslash is copied.               *)
CopyEscapedQuote_One ==
    /\ In("minify_string")
    /\ Starts(<<"backslash", "quote">>)
    /\ Copy(1)
    /\ UNCHANGED mode

(* A backslash and a quote are taken for an escaped quote, even if the     *)
(* backslash is itself escaped by one before it.                           *)
CopyEscapedQuote ==
    /\ In("minify_string")
    /\ Starts(<<"backslash", "quote">>)
    /\ Copy(2)
    /\ UNCHANGED mode

CopyOfString ==
    /\ In("minify_string")
    /\ Head(input) # "quote"
    /\ ~ Starts(<<"backslash", "quote">>)
    /\ Copy(1)
    /\ UNCHANGED mode

End ==
    /\ mode # "done"
    /\ input = << >>
    /\ mode' = "done"
    /\ UNCHANGED <<document, input, output>>

Next ==
    \/ DropLayout \/ DropSlash \/ OpenOnelineComment \/ OpenMultilineComment
    \/ OpenString \/ CopyOther
    \/ skip_oneline_comment \/ skip_multiline_comment
    \/ CloseString \/ CopyEscapedQuote \/ CopyOfString
    \/ End

Spec == Init /\ [][Next]_vars

-----------------------------------------------------------------------------
(***************************************************************************)
(* Properties.                                                             *)
(***************************************************************************)

Value == ValueOf(document)

(* The tags in the order of the text, with their depths, as in TagTree.    *)
RECURSIVE Preorder(_, _)
Preorder(tags, d) ==
    FlattenSeq([i \in DOMAIN tags |->
        <<[name |-> tags[i].name, assignable |-> TRUE, depth |-> d]>>
            \o Preorder(tags[i].children, d + 1)])

Tags == Preorder(document, 0)

Tree == INSTANCE TagTree WITH Name <- Seq(NameCharacter)

EndsInBackslash(name) == name # << >> /\ Last(name) = "backslash"

Misread == \E i \in DOMAIN Tags : EndsInBackslash(Tags[i].name)

(* The tags that are read back are those that were written: escaping,      *)
(* minifying and parsing agree on where a string ends and what it holds,   *)
(* as long as no name ends in a backslash.  Only tags nested too deep are  *)
(* refused: those of which TagTree says so from their depths.              *)
TagsSurvive ==
    mode = "done" /\ ~ Misread =>
        {v.value : v \in cJSON_ParseWithLength(output)}
            = IF Tree!CanBeParsed(Tags) THEN {Value} ELSE Refused

(* A file can be read exactly if all of its text is there.  The first part *)
(* of a text is refused wherever it was cut, and what is left of a longer  *)
(* text behind it does not matter: what ConfigFile takes for granted when  *)
(* processes truncate the file and write over each other.                  *)
CompleteIffReadable ==
    mode = "done" /\ ~ Misread =>
        /\ \A n \in 0 .. Len(output) - 1 : cJSON_ParseWithLength(SubSeq(output, 1, n)) = Refused
        /\ \A c \in Character :
               cJSON_ParseWithLength(Append(output, c)) = cJSON_ParseWithLength(output)

(* The minified text from the start to the end of the name of tag i.       *)
UpToName(i) ==
    LET Key     == print_string(<<"letter">>) \o <<":">>
        Behind  == <<",">> \o Key \o <<"word", ",">> \o Key \o <<"[">>
        Ends(j) == IF Tags[j].depth > Tags[j - 1].depth THEN << >>
                   ELSE FlattenSeq(Repeat(<<"]", "}">>, Tags[j - 1].depth + 1 - Tags[j].depth))
                            \o <<",">>
        Before(j) == IF j = 1 THEN <<"[">> ELSE Behind \o Ends(j)
    IN  FlattenSeq([j \in 1 .. i |->
            Before(j) \o <<"{">> \o Key \o print_string(Tags[j].name)])

(* A name that ends in a backslash is itself written well, like the names  *)
(* before it: only what follows the first of them may be lost.             *)
FirstTagsSurvive ==
    mode = "done" =>
        \A i \in DOMAIN Tags :
            (\A j \in 1 .. i - 1 : ~ EndsInBackslash(Tags[j].name))
                => IsPrefix(UpToName(i), output)

(* "Le fichier de configuration est 'minifie' (les espaces et retours a la *)
(* ligne inutiles sont retires)".  As long as no name ends in a backslash, *)
(* cJSON_Minify undoes the whole layout of cJSON_Print and touches nothing *)
(* else, though names hold blanks, slashes and stars as well.              *)
OnlyLayoutIsRemoved ==
    mode = "done" /\ ~ Misread => output = cJSON_PrintUnformatted(Value)

(* The same sentence, for every name: only useless characters are removed, *)
(* so what is left holds the same tags.  It fails behind a name that ends  *)
(* in a backslash: minify_string misses the end of that string and takes   *)
(* the quote that opens the next name for a closing one, and with it that  *)
(* name for text outside of strings, of which cJSON_Minify removes blanks, *)
(* slashes and comments.                                                   *)
MinifyKeepsTags ==
    mode = "done" => {v.value : v \in cJSON_ParseWithLength(output)} = {Value}

=============================================================================
