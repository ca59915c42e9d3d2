--------------------------- MODULE SearchTagFile ---------------------------
(***************************************************************************)
(* The command search-tag-file (src/search-tag-file.c): it expands the     *)
(* tags of its expression to the tags below them, then walks a directory   *)
(* and prints the files whose tags satisfy the expression.                 *)
(*                                                                         *)
(* One buffer, xattr_buf, holds the list of keys of one file after the     *)
(* other; what valid_result leaves in it is there when the next file is    *)
(* looked at.                                                              *)
(***************************************************************************)
EXTENDS TagTree, Integers

CONSTANTS
    File, Dir,
    Top,            \* the directory of the command line
    Parent,         \* Parent[e]: the directory of a file or directory e
    Link,           \* the directories that are symbolic links
    Target,         \* Target[l]: the directory the link l leads to
    MaxLinks,       \* how many links the system follows in one path (40 in Linux)
    Trees,          \* the tag trees the configuration file may hold
    Expressions,    \* the expressions of the command line
    Other,          \* the key of an attribute that is no tag of the user
    KeySize,        \* KeySize[k]: the length of the key k, its final 0 included
    KeyLists,       \* the lists of keys a file may have
    Blocked,        \* the sets of files and directories that cannot be read
    Events          \* "retag": other commands change the tags of files meanwhile

Attribute == Name \cup {Other}

(* "+tag", "_tag", or a member with another first character.               *)
Member == [sign : {"+", "_", "?"}, tag : Name]

ASSUME SearchAssumption ==
    /\ File \cap Dir = {}
    /\ Top \in Dir
    /\ Parent \in [(File \cup Dir) \ {Top} -> Dir \ Link]
    /\ Link \subseteq Dir \ {Top}
    /\ Target \in [Link -> Dir \ Link]
    /\ MaxLinks \in Nat
    /\ Other \notin Name
    /\ KeySize \in [Attribute -> Nat \ {0}]
    /\ Events \subseteq {"retag"}

\* What the process may find: manage-tag keeps the names of a tree apart.
ASSUME InputAssumption ==
    /\ \A t \in Trees : t \in Tree /\ Unique(t)
    /\ \A e \in Expressions : e \in Seq(Member)
    /\ \A s \in KeyLists : s \in Seq(Attribute)

(* The set holds, with a directory, the one it is in, up to Top.           *)
UpwardClosed(S) == \A d \in S \ {Top} : Parent[d] \in S

\* From every directory the parents lead up to Top.
ASSUME TreeAssumption ==
    \A S \in SUBSET Dir : S # {} /\ UpwardClosed(S) => Top \in S

VARIABLES
    tree,           \* the tag tree of the process
    expression,     \* its expression
    expanded,       \* expanded[i]: the tags member i stands for
    phase,          \* where the process is
    frames,         \* the directories it is in, the last one the innermost
    file,           \* the file whose list of keys it is reading
    keys,           \* the keys in xattr_buf.str
    str_length,     \* xattr_buf.str_length; -1 is the largest size_t, or close to it
    str_capacity,   \* xattr_buf.str_capacity
    printed,        \* the files it has printed
    attrs,          \* attrs[f]: the keys of f in the order listxattr has them
    blocked         \* what cannot be read: a dangling link, a closed directory

command == <<tree, expression, blocked>>
buffer == <<keys, str_length, str_capacity>>
vars == <<command, expanded, phase, frames, file, buffer, printed, attrs>>

Frame == [dir : Dir, left : SUBSET (File \cup Dir), links : 0 .. MaxLinks, success : BOOLEAN]

TypeOK ==
    /\ tree \in Trees
    /\ expression \in Expressions
    /\ expanded \in [DOMAIN expression -> SUBSET Name]
    /\ phase \in {"parsing", "refused", "walking", "listing", "crashed",
                  "EXIT_SUCCESS", "EXIT_FAILURE"}
    /\ frames \in Seq(Frame)
    /\ phase = "listing" => file \in File
    /\ keys \in Seq(Attribute)
    /\ str_length \in Nat \cup {-1}
    /\ str_capacity \in Nat
    /\ printed \subseteq File
    /\ attrs \in [File -> KeyLists]
    /\ blocked \in Blocked

Init ==
    /\ tree \in Trees
    /\ expression \in Expressions
    /\ expanded = [i \in DOMAIN expression |-> {}]
    /\ phase = "parsing"
    /\ frames = << >>
    /\ file = CHOOSE f \in File : TRUE
    /\ keys = << >>
    /\ str_length = 0
    /\ str_capacity = 0
    /\ printed = {}
    /\ attrs \in [File -> KeyLists]
    /\ blocked \in Blocked

-----------------------------------------------------------------------------
(***************************************************************************)
(* The expression.                                                         *)
(***************************************************************************)

(* Mutant of add_all_children: only one level is added.                    *)
add_all_children_OneLevel(t, i) ==
    {t[j].name : j \in {k \in i + 1 .. EndOfArray(t, i, t[i].depth + 1) :
                            t[k].depth = t[i].depth + 1}}

(* The tags below the one at position i of the tree.                       *)
add_all_children(t, i) ==
    {t[j].name : j \in i + 1 .. EndOfArray(t, i, t[i].depth + 1)}

Found(i) == get_tag(tree, expression[i].tag)

(* What add_tag_children may add for the tag of member i.  For one that is *)
(* not in the tree, tag_tree is read uninitialised: it may still point to  *)
(* the object of an earlier member, or to nothing of use, see Refuse.      *)
add_tag_children(i) ==
    IF Found(i) # 0 THEN {add_all_children(tree, Found(i))}
    ELSE {add_all_children(tree, Found(j)) : j \in {j \in 1 .. i - 1 : Found(j) # 0}}

(* What stat and opendir find at the name d.                               *)
Resolve(d) == IF d \in Link THEN Target[d] ELSE d

Entries(d) == {e \in (File \cup Dir) \ {Top} : Parent[e] = Resolve(d)}

(* The loop over a directory whose path leads through that many links.     *)
Opened(d, links) == [dir |-> d, left |-> Entries(d), links |-> links, success |-> TRUE]

Parse ==
    /\ phase = "parsing"
    /\ \A i \in DOMAIN expression : expression[i].sign # "?"
    /\ \E sets \in [DOMAIN expression -> SUBSET Name] :
           /\ \A i \in DOMAIN expression :
                  \E below \in add_tag_children(i) :
                      sets[i] = below \cup {expression[i].tag}
           /\ expanded' = sets
    /\ IF Top \in blocked
       THEN phase' = "EXIT_FAILURE" /\ UNCHANGED frames
       ELSE phase' = "walking" /\ frames' = <<Opened(Top, 0)>>
    /\ UNCHANGED <<command, file, buffer, printed, attrs>>

(* The first member with another sign, or before it an unknown tag with    *)
(* nothing, or garbage, in tag_tree.  main() exits with EXIT_FAILURE, here *)
(* "refused", before it has looked at any file; or the process dies.       *)
Refuse ==
    /\ phase = "parsing"
    /\ \E i \in DOMAIN expression :
           /\ \A j \in 1 .. i - 1 : expression[j].sign # "?"
           /\ IF expression[i].sign = "?" THEN phase' = "refused"
              ELSE Found(i) = 0 /\ phase' \in {"refused", "crashed"}
    /\ UNCHANGED <<command, expanded, frames, file, buffer, printed, attrs>>

-----------------------------------------------------------------------------
(***************************************************************************)
(* One file: valid_result on the buffer.                                   *)
(***************************************************************************)

(* The members that go into the one array of params and into the other.    *)
wanted_tags == {i \in DOMAIN expression : expression[i].sign = "+"}
unwanted_tags == {i \in DOMAIN expression : expression[i].sign = "_"}

Unwanted == UNION {expanded[i] : i \in unwanted_tags}

(* The length of the first n keys of the list s.                           *)
PrefixSize(s, n) ==
    LET size[j \in 0 .. Len(s)] == IF j = 0 THEN 0 ELSE size[j - 1] + KeySize[s[j]]
    IN  size[n]

(* has_tag after n keys, and is_tagged.                                    *)
HasWanted(s, n) ==
    \A w \in wanted_tags : \E j \in 1 .. n : s[j] \in expanded[w]

IsTagged(s, n) == \E j \in 1 .. n : s[j] \in Name

(* Mutant of Minus: the difference is signed.                              *)
Minus_Signed(len, n) == len - n

(* The unsigned difference.                                                *)
Minus(len, n) == IF len >= n THEN len - n ELSE -1

Outcome(result, len) == [crash |-> FALSE, result |-> result, len |-> len]

(* The loop reads on behind the keys until it finds a reason to stop.      *)
ReadsOn == {[crash |-> TRUE, result |-> FALSE, len |-> 0]}
           \cup {Outcome(r, n) : r \in BOOLEAN, n \in {-1, 0}}

(* Mutant of valid_result: one wanted tag is enough.                       *)
valid_result_AnyWanted(s, len) ==
    {Outcome(/\ Range(s) \cap Unwanted = {}
             /\ Range(s) \cap UNION {expanded[w] : w \in wanted_tags} # {}, 0)}

(* The results of valid_result, with the str_length it leaves, for the     *)
(* keys s and the str_length len.  The loop takes the length of each key   *)
(* off str_length and ends when nothing is left, which it misses if        *)
(* str_length is not the length of some of the keys.  It stops earlier at  *)
(* an unwanted tag, and, if there are no unwanted tags, when it has found  *)
(* all the wanted ones.                                                    *)
valid_result(s, len) ==
    LET ends  == {n \in 0 .. Len(s) : PrefixSize(s, n) = len}
        last  == Min(ends \cup {Len(s) + 1})
        stops == {i \in 1 .. Min({last, Len(s)}) :
                      \/ s[i] \in Unwanted
                      \/ s[i] \in Name /\ HasWanted(s, i) /\ unwanted_tags = {}}
        i     == Min(stops)
    IN  CASE stops # {} /\ s[i] \in Unwanted -> {Outcome(FALSE, Minus(len, PrefixSize(s, i - 1)))}
          [] stops # {} /\ s[i] \notin Unwanted -> {Outcome(TRUE, 0)}
          [] stops = {} /\ ends # {} -> {Outcome(HasWanted(s, last) /\ IsTagged(s, last), 0)}
          [] OTHER -> ReadsOn

-----------------------------------------------------------------------------
(***************************************************************************)
(* The walk: list_correct_files.                                           *)
(***************************************************************************)

Current == Last(frames)

(* Going on in the innermost directory after its entry e.                  *)
After(e, success) ==
    frames' = Front(frames) \o <<[Current EXCEPT !.left = @ \ {e},
                                                 !.success = @ /\ success]>>

(* The end of the loop's body for the file f, with list in the buffer.     *)
Judge(f, list, len) ==
    \E o \in valid_result(list, len) :
        /\ phase' = IF o.crash THEN "crashed" ELSE "walking"
        /\ printed' = IF o.result THEN printed \cup {f} ELSE printed
        /\ str_length' = o.len
        /\ After(f, TRUE)

Next_file(f) == phase = "walking" /\ frames # << >> /\ f \in Current.left \cap File

Size(f) == PrefixSize(attrs[f], Len(attrs[f]))

(* The first listxattr says that f has no attributes: get_xattr_list       *)
(* returns true and leaves the buffer as it is.                            *)
MeasureNothing(f) ==
    /\ Next_file(f)
    /\ f \notin blocked
    /\ attrs[f] = << >>
    /\ Judge(f, keys, str_length)
    /\ UNCHANGED <<command, expanded, file, keys, str_capacity, attrs>>

(* The buffer is made large enough.                                        *)
MeasureKeys(f) ==
    /\ Next_file(f)
    /\ f \notin blocked
    /\ attrs[f] # << >>
    /\ str_capacity' = IF str_capacity <= Size(f) THEN 2 * Size(f) ELSE str_capacity
    /\ file' = f
    /\ phase' = "listing"
    /\ UNCHANGED <<command, expanded, frames, keys, str_length, printed, attrs>>

MeasureFails(f) ==
    /\ Next_file(f)
    /\ f \in blocked
    /\ After(f, FALSE)
    /\ UNCHANGED <<command, expanded, phase, file, buffer, printed, attrs>>

(* The second listxattr.                                                   *)
ListKeys ==
    /\ phase = "listing"
    /\ Size(file) <= str_capacity
    /\ keys' = IF attrs[file] = << >> THEN keys ELSE attrs[file]
    /\ Judge(file, keys', Size(file))
    /\ UNCHANGED <<command, expanded, file, str_capacity, attrs>>

(* Mutant of ListFails: it is tried again with the same buffer.            *)
ListFails_Retry ==
    /\ phase = "listing"
    /\ Size(file) > str_capacity
    /\ UNCHANGED vars

(* ERANGE: the list has become longer than the buffer.  The error, -1, is  *)
(* stored as the length of the list.                                       *)
ListFails ==
    /\ phase = "listing"
    /\ Size(file) > str_capacity
    /\ str_length' = -1
    /\ phase' = "walking"
    /\ After(file, FALSE)
    /\ UNCHANGED <<command, expanded, file, keys, str_capacity, printed, attrs>>

LinksTo(d) == Current.links + (IF d \in Link THEN 1 ELSE 0)

(* A subdirectory is listed only if nothing has failed in this directory.  *)
(* One behind too many links is none to stat, and nothing to listxattr:    *)
(* the failure of a file.                                                  *)
EnterDir(d) ==
    /\ phase = "walking"
    /\ frames # << >>
    /\ d \in Current.left \cap Dir
    /\ IF Current.success /\ LinksTo(d) <= MaxLinks /\ {d, Resolve(d)} \cap blocked = {}
       THEN frames' = Append(frames, Opened(d, LinksTo(d)))
       ELSE After(d, FALSE)
    /\ UNCHANGED <<command, expanded, phase, file, buffer, printed, attrs>>

(* Mutant of LeaveDir: the result of a subdirectory is dropped.            *)
LeaveDir_Dropped ==
    /\ phase = "walking"
    /\ frames # << >>
    /\ Current.left = {}
    /\ IF Len(frames) = 1
       THEN /\ frames' = << >>
            /\ phase' = IF Current.success THEN "EXIT_SUCCESS" ELSE "EXIT_FAILURE"
       ELSE LET outer == Front(frames)
            IN  /\ frames' = Front(outer) \o
                       <<[Last(outer) EXCEPT !.left = @ \ {Current.dir}]>>
                /\ UNCHANGED phase
    /\ UNCHANGED <<command, expanded, file, buffer, printed, attrs>>

(* The end of a directory, and, with the outermost one, of main().         *)
LeaveDir ==
    /\ phase = "walking"
    /\ frames # << >>
    /\ Current.left = {}
    /\ IF Len(frames) = 1
       THEN /\ frames' = << >>
            /\ phase' = IF Current.success THEN "EXIT_SUCCESS" ELSE "EXIT_FAILURE"
       ELSE LET outer == Front(frames)
            IN  /\ frames' = Front(outer) \o
                       <<[Last(outer) EXCEPT !.left = @ \ {Current.dir},
                                             !.success = Current.success]>>
                /\ UNCHANGED phase
    /\ UNCHANGED <<command, expanded, file, buffer, printed, attrs>>

(* assign-tag or rm-tag runs on a file.                                    *)
Retag ==
    /\ "retag" \in Events
    /\ phase \in {"walking", "listing"}
    /\ \E f \in File, list \in KeyLists : attrs' = [attrs EXCEPT ![f] = list]
    /\ UNCHANGED <<command, expanded, phase, frames, file, buffer, printed>>

Search ==
    \/ Parse \/ Refuse
    \/ \E f \in File : MeasureNothing(f) \/ MeasureKeys(f) \/ MeasureFails(f)
    \/ ListKeys \/ ListFails
    \/ \E d \in Dir : EnterDir(d)
    \/ LeaveDir

Next == Search \/ Retag

Spec == Init /\ [][Next]_vars

(* The process runs on, and blocks nowhere.  No fairness for Retag.        *)
FairSpec == Spec /\ WF_vars(Search)

-----------------------------------------------------------------------------
(***************************************************************************)
(* Properties.                                                             *)
(***************************************************************************)

(* The tags a tag of an expression stands for: itself and those below it.  *)
StandsFor(tag) ==
    {tag} \cup {tree[k].name : k \in {k \in DOMAIN tree :
        \E i \in 1 .. k - 1 : /\ tree[i].name = tag
                             /\ \A j \in i + 1 .. k : tree[j].depth > tree[i].depth}}

Tags(f) == Range(attrs[f]) \cap Name

(* "_tag1 means that the file MUST NOT be tagged with tag1, +tag2 means    *)
(* that the file MUST be tagged with tag2"; a file without tags is never   *)
(* listed.                                                                 *)
Satisfies(f) ==
    /\ Tags(f) # {}
    /\ \A i \in wanted_tags : Tags(f) \cap StandsFor(expression[i].tag) # {}
    /\ \A i \in unwanted_tags : Tags(f) \cap StandsFor(expression[i].tag) = {}

(* The configuration file has the tags of these members.                   *)
Known(members) == \A i \in members : Found(i) # 0

(* A file with attributes is judged by the tags it has when its keys are   *)
(* listed, whatever the buffer held before, and though its tags may have   *)
(* changed since the buffer was made large enough.  Behind a link that     *)
(* leads back it may have been printed before, for the tags it had then.   *)
JudgedRight ==
    [][Known(wanted_tags) /\ Known(unwanted_tags) =>
          (phase = "listing" /\ attrs[file] # << >> /\ phase' = "walking" /\ str_length' # -1
              => (file \in printed' <=> file \in printed \/ Satisfies(file)))]_vars

(* If the search succeeds, it has printed every file that satisfies the    *)
(* expression: an error anywhere below a directory reaches the exit code,  *)
(* no early end of a loop skips a file, and a wanted tag that is in no     *)
(* configuration file only adds to what is accepted.                       *)
SuccessIsComplete ==
    Known(unwanted_tags) /\ phase = "EXIT_SUCCESS" => {f \in File : Satisfies(f)} \subseteq printed

(* As long as the expression has no "_", every file is judged on its own:  *)
(* valid_result leaves an empty buffer, so files without attributes are    *)
(* not printed and no loop leaves the keys of a file.                      *)
PositiveSearchIsExact ==
    Known(wanted_tags) /\ unwanted_tags = {} =>
        /\ phase # "crashed"
        /\ printed \subseteq {f \in File : Satisfies(f)}

(* The directories a directory is in, itself included.                     *)
Above(d) ==
    {e \in Dir : \A S \in SUBSET Dir : d \in S /\ UpwardClosed(S) => e \in S}

(* A link to a directory it is in, which the walk follows round and round, *)
(* always costs the search its success, though it may have printed every   *)
(* file: the system refuses a path in the end, and the failure comes back  *)
(* through all the directories.                                            *)
LoopFails ==
    (\E l \in Link : Target[l] \in Above(Parent[l])) => phase # "EXIT_SUCCESS"

(* The walk ends, though other commands change the tags meanwhile and      *)
(* links lead it back: the system follows so many of them only.            *)
SearchEnds == <>(phase \in {"refused", "crashed", "EXIT_SUCCESS", "EXIT_FAILURE"})

(* "Search recursively for files matching the given expression": what is   *)
(* printed matches.  It fails for a file without attributes that follows a *)
(* file with an unwanted tag: the keys of that one are still in its buffer. *)
PrintedFilesMatch == printed \subseteq {f \in File : Satisfies(f)}

=============================================================================
