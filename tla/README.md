# A verification of the tag system

The repository holds five command line tools that give files hierarchical tags.
This directory models them in TLA+, checks the models with TLC and proves with
TLAPS what matters most about `manage-tag`, the commands on files and the
search. Paths below are relative to `src/`.

## 1. The system

| Part | State | Operations | Shares with |
|---|---|---|---|
| Tag tree in memory (`src/tag.c`, `src/manage-tag.c`) | nested cJSON arrays of objects `name`, `assignable`, `children` | `get_tag`, `get_parent_array`, `get_children_array`, `get_name`, `is_assignable`; `new_tag`, `add_tag`, `add_to_parent`, `remove_tag`, `list_available_tags` | private to a process |
| Configuration file `~/.tagsys6.json` (`parse_config_file`, `write_config_file`) | one text | read: open, measure, read, parse; write: truncate, print, minify, write at `fclose` | every tool of the user; no lock |
| `manage-tag` | the tree it loaded | `-a`, `-A`, `-p`, `-P`, `-r`, `-l` (a capital makes a tag that is not assignable) | configuration file |
| `assign-tag` | the tree it loaded, an open file | look up each tag, `fsetxattr(XATTR_CREATE)` | configuration file, attributes of files |
| `rm-tag` | list of keys, `error_occured` | `fremovexattr` per tag; `-c`: list, then remove one by one | attributes of files |
| `display-file-tag` | list of keys | two `flistxattr`, print | attributes of files |
| `search-tag-file` | expanded expression, path, one attribute buffer | expand tags, walk directories, judge each file | configuration file, attributes of files |
| String arrays, buffers (`src/tag.c`) | length, capacity, memory | append, extend | private |
| cJSON (`lib/`) | linked lists, texts | parse, print, minify, list operations | private |
| Installation (`Makefile`) | installed files | install, uninstall | configuration file |

A tag `t` of user `u` on a file is an extended attribute
`user.tagsys6.<u>.<t>` with an empty value. The tools call each other in no
way; they meet in the configuration file and in the attributes of the files.

What is hard to test here:

* **Interleaving.** Load, change and write back is not atomic. Neither is
  measure-then-read, of the file (`ftell`, `fread`) or of the attributes
  (`listxattr` twice).
* **Crash.** Between `fopen("w")` and `fclose` the file is empty.
* **Failure.** The results of `fclose` and `write_config_file` are dropped;
  loops over tags end, or go on, after a failure.
* **Stale state.** One attribute buffer serves all files of a search; a tree is
  used after the file it came from has changed.
* **Agreement.** `remove_tag` assumes that two different recursions find the
  same object; writing assumes that printing, minifying and parsing agree on
  where a string ends.
* **Limits.** cJSON's nesting limit, lengths stored as unsigned numbers,
  capacities in bytes compared to numbers of elements.
* **Memory.** The commands move cells between cJSON's linked lists and free what
  is left; one path buffer serves a whole walk.

`PROJECT.json` lists each of these at its line with the properties about it.

## 2. Modules

```
TagDictionary      tags and parents: what the docs promise
   ^ implements
TagEdits           one command = one edit of a tree   (TagEditsDictionary: the mapping)
   ^            ^            ^ implement
JsonTree     JsonList     ManageTagSolo --extends--> ManageTag --extends--> ConfigFile
(nested      (linked      (one process at a time)    (processes, faults)
 arrays)      cells)                                 ManageTagHistory: with a history variable
                          all on TagTree: a tree as a sequence of tags

JsonText --> JsonValue                printing, cJSON_Minify and parsing of the file
FileTags --> FileTagsHistory          assign-tag, rm-tag, display-file-tag
SearchTagFile --> TagTree             search-tag-file
SearchPath --> SearchTagFile, Buffers the path buffer of the same search
SearchParams --> TagTree              the arrays of names of an expression

TagTreeTheorems             the operators on trees           proofs
   <-- ManageTagTheorems <-- ManageTagSoloTheorems
   <-- TagEditsTheorems
   <-- SearchTagFileTheorems <-- SearchPathTheorems
   <-- JsonListTheorems
FileTagsTheorems
MC...                                 constants for TLC
```

* **TagTree** has the tree as a sequence of tags in the order of the text, each
  with its depth. That is the nested arrays without recursion, which makes it
  usable in proofs: `get_tag` is the position of the first tag with a name,
  `EndOfArray` the place where `cJSON_AddItemToArray` appends, and
  `remove_tag` deletes a position, takes the block of descendants out, lifts
  it by one level and inserts it at the end of the parent's array.
* **JsonTree** has the same functions on the nested arrays with the recursion,
  the early returns and the error codes of the source, also on files a user
  has damaged: objects without a name, without children, with other children,
  names that appear twice. It justifies TagTree: on sound files its steps are
  those of TagEdits.
* **JsonList** has them once more, on the cells of cJSON with their pointers
  `child`, `next` and `prev`: what parsing links, what
  `cJSON_DetachItemViaPointer` cuts and `add_item_to_array` ties, and the
  frees, cell by cell. A process loads the file, runs one command and ends; the
  heap starts anew. A cell that was freed keeps its contents, so a use after a
  free shows as a list with a freed cell in it. cJSON keeps a pointer to the
  last item in the `prev` of the first; parsing leaves it NULL and detaching
  does not look after it, so it is part of the state. The loops and recursions
  along pointers (`Walk`, `cJSON_Delete`, `Preorder`) are recursive functions of
  the number of calls they may still nest, one more than there are cells: in a
  ring they end there, which the properties then show.
* **ConfigFile** is the file: a tree and a size. The size matters since a
  process may measure it before and read it after another process truncated or
  wrote it. A text is taken to fit one stdio buffer, so it is written by one
  `write` at `fclose`.
* **ManageTag** runs processes through `main()`: `Start` (open and measure),
  `Load` or `LoadFails` (read and parse), one action per command, which ends in
  the truncation, and `Flush` or `FlushFails` (print, minify, write, close).
  `Kill` may come at any place. A load that fails may end in a crash instead of
  an exit code: the parse error points into a buffer that was freed, and a short
  read runs into an assertion. Variables: the file `disk`, and per process
  the measured `nbbytes`, the tree `root`, `pc`, `cmd` and exit `status`.
* **FileTags** has the attributes `attrs[f]` of each file as a set of pairs
  [user, tag] and each system call as one action. `config[u]` says whether the
  user's configuration file can be loaded and what is assignable in it; it may
  change at any time (`Reconfigure`). Three switches, `Events`, allow kills,
  failing calls, and changes of the configuration.
* **FileTagsHistory** remembers what was set and removed on a process's file,
  what was assignable, and which removals it tried and failed (`missed`), since
  the process started.
* **SearchTagFile** expands the expression over a TagTree, then walks the
  directories with an explicit stack `frames` (a recursion of
  `list_correct_files` each) in any order of entries. A directory may be a
  symbolic link to one above it; `stat` resolves at most `MaxLinks` of them in
  one path, then fails. `keys`, `str_length` and
  `str_capacity` are the attribute buffer; `valid_result` returns, with its
  verdict, the `str_length` it leaves behind. Length -1 stands for the huge
  unsigned number that the error of `listxattr` becomes. What is undefined in
  C is a choice: reading on behind the buffer may crash or give either
  verdict; an uninitialised `tag_tree` is the object of an earlier member, or
  refused, or a crash.
* **Buffers** and **SearchPath** have the path of that walk in memory: cells,
  an end mark, a length and a capacity. SearchPath adds the variable `path` to
  SearchTagFile: an entry's name is appended, and after the entry only the
  length is set back, while the text stays.
* **SearchParams** has the arrays `get_tag_search_params` fills, with the
  number of elements, the capacity the code believes in, the bytes that were
  allocated and the bytes that were written.
* **JsonValue** prints and parses values as cJSON does, over kinds of
  characters: escapes, layout, nesting limit, and what it does at the end of a
  text. **JsonText** makes the value of a tree of tags, runs `cJSON_Minify` on
  its text one turn of a loop at a time, and parses what comes out.

## 3. What the runs check

| Run | Bounds | Shows |
|---|---|---|
| `json_list` | 4 names, files of up to 4 tags, every command on each | the lists stay linked, every cell is freed once, the text written is the tree that TagTree computes, and each command changes the parents of the tags concerned and of no other |
| `json_tree` | sound files of up to 4 tags; damaged ones of up to 4 objects in 2 levels | nested arrays make the steps of TagEdits; `get_tag` and `get_parent_array` find the same object; what is found is listed; no unreadable object is lost |
| `manage_concurrent` | 2 processes, trees of 3 tags, no faults | no duplicate tags, every tree a forest, the file is loadable when no one is writing, a truncated file is written again |
| `manage_solo` | 1 process at a time, 3 names, kills, failing reads and writes, nesting limit reached at depth 2 | each command is one edit, nothing, or the loss of the file; a lost file stays lost |
| `file_tags` | 2 processes of user 1, 2 users, 1 file, 2 tags, all four commands, kills, failing calls, configuration changes | tags set were assignable at some time since the start; success of `assign-tag` and `rm-tag` means that each tag was handled; `-c` leaves only what others set meanwhile or what it failed to remove; other users' attributes stay |
| `search` | 3 files in 2 directories, names of 1 to 6 characters, 3 trees of 2 or 3 tags, 7 expressions, 8 lists of keys, one unreadable entry | success means that no matching file is missing, if the tags after `_` are known; without `_`, and if the others are known, no wrong file is printed; the path handed to every system call is that of the entry |
| `search_retag` | 1 file in each of 2 directories, a link from the lower to the upper that the system follows once, 3 lists, one unreadable file, tags change during the walk | each file is judged by the keys it is listed with; the walk ends, and not in success |
| `json_text` | a name of up to 2 characters with one of 6 odd names, or 3 odd ones, side by side and nested; tags of depth 2 exceed the nesting limit | the tags come back unless a name ends in a backslash; that one and those before it come back always; a tree too deep is refused, and so is every proper prefix of a text, while what follows a text is ignored; as long as no name ends in a backslash, minifying removes all of the layout and nothing else |
| `finding_lost_update` | 2 processes, 2 names | violated: see below |
| `finding_minify` | as `json_text`, no tree too deep | violated: see below |
| `finding_stale_buffer` | as `search`, one tree, all readable | violated: see below |
| `finding_array` | a tag with up to two tags below it, expressions of 1 or 2 members | violated: see below |

Every property of a passing run is also checked against a mutant: a plausible
bug put in place of a definition, named in `PROJECT.json` and defined, with the
suffix after `_`, before what it replaces.

**Why the bounds are enough.** Removing a tag moves three kinds of tags: its
descendants, what follows it in its array, and what follows that array; four
tags show all of them, three show two at a time. The same four cells give every
neighbourhood the pointer operations tell apart: first, last, middle and only
item, with and without children, and a list that was appended to, cut at its
end and appended to again. Two processes are what a lost
update, a read during a write, or a removal during a listing needs. Two tags on
a command line show one handled and one not. A search needs a file that leaves
something in the buffer, one that reads it, and one more directory for errors
to cross; the longest key makes a list outgrow the buffer. The system allows 40
links in a path; one turn round the loop already shows a directory entered
while it is being walked and the refusal of the second turn. In `search` one
name is longer than all the others, so that the path buffer grows, for it or for
a deeper path before it, and keeps what that name leaves. Strings of two
characters contain every pair that `minify_string` and `cJSON_Minify` look at;
three odd names show the flip, a comment and its end. No state constraint cuts
a run off; MaxObjects and MaxTags are guards of the commands of JsonTree and
JsonList.

The names that a member of an expression stands for are sets in SearchTagFile.
In C their array overflows from the third name on (see *Array capacity*), so
the trees of `search` have three tags at most and the expressions two members:
three names write 24 bytes into 16 that were asked for, which the common
allocators round up to that. Beyond that the outcome is undefined, and the
model does not follow it.

**Fairness.** `manage_concurrent` assumes weak fairness of the steps of each
process that has started, `search_retag` of those of the search. The code
justifies it: no step waits for another process, and the system's scheduler
lets processes run. Nothing is assumed of `Start`, `Kill`, `Reconfigure` or
`Retag`.

### Findings

* **Lost update** (`src/manage-tag.c:272`). Two overlapping `-a` succeed and one
  tag is lost: nothing locks the file from loading to writing.
* **Backslash** (`lib/cJSON.c:2785`). A tag whose name ends in a backslash
  spoils the name of the tag behind it: `minify_string` takes the escaped
  backslash and the closing quote for an escaped quote, then the quote that
  opens the next name for a closing one, and `cJSON_Minify` removes the blanks,
  slashes and comments of that name, which it takes for text outside of strings.
  The trace ends with a tag `\` and behind it one whose name, a blank or a slash,
  is read back empty. A name that starts with `//` or `/*` takes what is behind it
  along, and the file cannot be read any more. `TagsSurvive` and
  `OnlyLayoutIsRemoved` of `json_text` say that without such a name all is well.
* **Stale buffer** (`src/search-tag-file.c:125`). With an unwanted tag in the
  expression, a file without any attribute may be printed because of the keys
  of the file before it.
* **Array capacity** (`src/tag.c:109`). `add_to_str_array` computes a capacity
  in bytes and compares it to a number of elements: the first element allocates
  two, and the array is not extended before the sixteenth. A tag with two
  descendants in an expression writes behind the memory.

The models contain more behaviour that differs from the docs and that no run
states as a property; `hazards` in `PROJECT.json` names it: `-a` succeeds
although the write failed, `-p` writes files nested too deep to be loaded, `-a`
duplicates a tag of a damaged file, `rm-tag -c` succeeds although a removal
failed, a search enters no subdirectory after an error, a link to a directory
above makes every search fail after it has printed files many times over, and
an unknown tag in an expression stands for anything.

## 4. What is proved

For every value of the constants: sets of names, processes, users and files,
command lines, trees, directories, links, lists of keys, limits and faults.

| Module | Theorem | Says |
|---|---|---|
| ManageTagTheorems | `TypeCorrect` | `Spec => []TypeOK` |
| | `NoDuplicates` | `Spec => []NoDuplicateTag` |
| | `AlwaysForest` | `Spec => []Forest` |
| | `NoCommandRepairs` | `Spec => NoRepair` |
| | `QuietFileIsReadable` | without faults and with every tree parseable, `[]ReadableWhenQuiet` |
| ManageTagSoloTheorems | `EditsRefined` | `Spec => ImplementsEdits`: one process at a time implements TagEdits |
| TagEditsTheorems | `DictionaryRefined` | `Spec => ImplementsDictionary`: TagEdits implements TagDictionary |
| FileTagsTheorems | `FileTypesCorrect` | `HSpec => []HistoryTypeOK` |
| | `AssignSucceedsWhole` | `HSpec => AssignedOnSuccess` |
| | `RemoveSucceedsWhole` | `HSpec => RemovedOnSuccess` |
| | `ClearSucceedsWhole` | `HSpec => ClearedOnSuccess` |
| | `OthersAreSafe` | `HSpec => OthersUntouched` |
| | `SetTagsAreKnown` | `HSpec => SetTagsWereAssignable` |
| SearchTagFileTheorems | `TypeCorrect` | `Spec => []TypeOK` |
| | `SuccessComplete` | without `Retag`, `Spec => []SuccessIsComplete` |
| | `PositiveSearchExact` | without `Retag`, `Spec => []PositiveSearchIsExact` |
| | `LoopsFail` | `Spec => []LoopFails` |
| | `FilesJudgedRight` | `Spec => JudgedRight` |
| SearchPathTheorems | `PathRight` | `PSpec => PathNamesEntry` |
| JsonListTheorems | `ListsStayLinked` | `Spec => []ListsLinked` |
| | `CellsAreFreedOnce` | `Spec => []EachFreedOnce` |
| | `ListsRefineEdits` | `Spec => ListsImplementEdits`: the cells and pointers implement TagEdits |

*Assumptions.* The named ASSUMEs of TagTree, ManageTag, ManageTagSolo,
FileTags, SearchTagFile, SearchPath and JsonList about the constants only; TLC evaluates
them in the runs. Those that matter:

* FileTags: there are finitely many keys, since the system limits their length,
  so lists of keys can be counted.
* SearchTagFile, `InputAssumption`: the trees have one tag of each name. That
  is what `NoDuplicates` shows of the files the commands write.
  `TreeAssumption`: from every directory the parents lead up to the one of the
  command line.
* SearchPath, `NulAssumption`: no name contains the 0 that ends a string.
* JsonList, `CommandAssumption`: a command line is one of `-a`, `-p` and `-r` with
  its arguments. `NullAssumption`: NULL is the address of no cell.

Four theorems have hypotheses of their own. `QuietFileIsReadable`: no faults,
and every forest of distinct names within the nesting limit. `SuccessComplete`
and `PositiveSearchExact`: no other command changes tags during the search;
with such changes a file may match when the search ends and have been looked
at before, so nothing can be promised. `DictionaryRefined`: the value that
stands for no parent is not a name.

*manage-tag.* `TagTreeTheorems` shows, for each of `add_tag`,
`add_to_parent` and `remove_tag`, that a well nested sequence with different
names becomes one again, if the name was checked. `remove_tag` is the long one:
it composes three blocks, the middle one lifted, so the lemmas say what is at
each position of the outcome and where the depths can change at the seams.
NoDuplicateTag and Forest are not inductive: a process that writes replaces the
file by the tree *it* checked, so both must hold of the file and of the tree of
every process at once, whether the process is about to write or has just
loaded. `GoodTrees` is that conjunction. ReadableWhenQuiet needs `WholeText` as
well: the size of the file is at least that of the tree it starts with, except
when it is empty, and then some process is about to write.

*The refinements.* In ManageTagSolo the tree of TagEdits is that of a process
about to write, and else that of the file, so a command takes effect when it
truncates the file, and the write itself is a stutter. The step of a command is
an edit of the *file* only if the process still has the file's tree: `SoloInv`
says so of each process that has loaded, which is where having one process at a
time is used; `finding_lost_update` shows it fail with two. TagEdits
implements TagDictionary because the parent of a tag is the last shallower one
before it (`IsParent`). For `remove_tag` the lemmas say where each position of
the outcome came from, tell its regions apart (before the tag, what moves up in
front of its children, the children, what is behind them) and find in each that
the parent is the one it was, or, for children of the removed tag, the tag's
parent. Together: with one process at a time, `manage-tag` does to its file what
the documentation says of tags and parents.

*Commands on files.* The invariant is `Progress`: of the keys that a
process has passed, those not in `todo` any more, its promise holds already, up
to what the history variables have recorded of other processes; and all keys in
`todo` belong to its user. Steps of other processes keep it because they are
recorded (`HistoryStep`), its own because `todo` loses exactly the key handled
(`TailElements`). `rm-tag -c` needs that the list holds every key: a list as
long as a set of keys, without repetition, leaves none out (`KeysInOrder`). A
removal that fails is not repeated and does not reach the exit code; `missed`
records it, and the promise of `-c` leaves those keys out.
`Places` ties `pc` to the program, so that only the end of a loop can succeed.

*The search.* `SearchInv` has a part per question. `PathInv`: the frames are a
path down from `Top`, and nothing has failed in any but the last. `ExpandedInv`:
a member stands for the tag and those below it, or for more if it is not in the
tree. `CapacityInv`: while no tags change, a list has room in the buffer that
was made for it. `ExactInv`: without unwanted tags `valid_result` leaves
`str_length` 0, so the next file starts with an empty buffer. The verdict itself
rests on what `valid_result` can return (`ValidResultCases`), and that on the
lengths of the first keys being all different (`PrefixSizeGrows`).
`DoneInv` is the hard one: unless something has failed, each entry no longer
`left` is done with. For a directory that should mean that all below it is done
with, but links may lead round in a circle. So `Done` asks for *some* set of
directories, each with the number of links on the way to it, that is closed under
subdirectories and whose files are all printed or do not match; leaving a
directory adds it to the sets of its subdirectories. The same set gives
`LoopFails`: a closed set with a loop in it would need more and more links,
and there are at most `MaxLinks`.

*The path.* `Holds(b, s)` says that a buffer has room for the string `s` and a 0,
and has it in its first cells. An append keeps that and puts a 0 behind
(`AppendHolds`), cutting keeps it without (`CutPath`), and with the 0 what C reads
is `s` (`ReadsString`). `TextInv` says which string it is: during the walk the
names of the frames' directories, with slashes between them, and while a file is
looked at its name as well. `FlattenSeq`, by which the property says it, is a
recursive function; a least counterexample shows that it exists and adds
the last name (`FlattenSteps`), and so for `PrefixSize`.

*The lists.* The invariant compares the pointers with a sequence of cells for each
array, `L`. `Linked` says that `child` is the first cell of the sequence, `next`
and `prev` the neighbours in it, and that no cell occurs twice. `AppendLinked`
and `DetachLinked` show which sequences the two functions of cJSON leave, and which
cells they do not touch; `ParseLinked` that parsing makes linked lists, and
`PreorderListed` that a recursion from the root meets only cells of the lists.
Their hypotheses are what the invariant `IInv` adds for each place in the
program. An append relies on the `next` of the new cell being NULL, which
`Reattaching` says of the tag that was taken out and detaching of a child.
Detaching spoils the `prev` of a first cell that points to the last one, so it is
allowed only for the first cell or while that pointer is NULL: `Parsed` says that
it is NULL after parsing, in every list, and after the first append
`remove_tag` detaches first cells only. It does not append to the list it
detaches from, since the tag comes after its array (`ParentsFirst`, a cell is
made before those below it).
The same order makes the recursion of `cJSON_Delete` end: `Subtree` is the
smallest closed set around a cell, the subtrees of the cells of one list have
nothing in common, and the recursion frees those of a list from a cell on, each
cell once (`DeleteFrees`). `Changed` says that the lists hold exactly the cells
that are not freed yet.

*The lists make the edits.* That the text of the cells is the tree TagEdits makes
needs no tree of cells: lists `L` represent a sequence of tags when a map gives
each position its cell such that the list of each cell has, in ascending order,
those of the positions whose parent it is (`Represents`). Then `child` leads to
the next position, if that is one level deeper, and `next` to the one behind the
descendants, if that is at the same level (`RepresentedFollows`), and a recursion
along both meets the positions one after the other (`FollowsPreorder`); so
what is printed is the sequence, and `get_tag` finds the cell of the position it
finds. What is left to show of a command is about parents. For `-a` and `-p` the
positions behind the new tag move by one (`Inserts`). For `-r`, `RemoveTagParents`
says where the parents are, and `PlaceOfOrigin` that only the children and what
they pass change their order, of which no array has some of each
(`ChildrenAround`).
The second invariant, `FileInv`, says how far a process is: its cells are those
of the file; then the list of the tag's array and that of its children, put
together, are the siblings without the tag and all its children, however many
have moved (`Moved`, kept by `MoveFirst`); then its text is the edit its command
asked for. The write makes it the file.

*Only model-checked.* Liveness (`TruncationEnds`, `SearchEnds`), which needs
ENABLED. What the recursions of JsonTree, JsonValue and JsonText compute, whose
recursive operators the provers cannot use: that JsonTree makes the steps of
TagEdits, what it finds in damaged files, and what printing, minifying and
parsing leave of a tag. And the arrays of SearchParams, for which the one run
finds a violation.

## 5. What is not modelled

* Numbers and Unicode escapes in cJSON: no command writes them and none reads
  them from a file the commands have written. The functions of cJSON that no
  command calls: references, comparison, duplication, the `Create` family.
* Failing allocations and the growth of cJSON's print buffer: the library
  doubles it and gives up, printing nothing, when memory ends.
* `load_config`, `config_file` and `xattr_namespace`: strings that are built
  once from the environment and the number of the user. The wording of
  `print_tag_error`, the indentation of `list_available_tags`.
* Texts longer than one stdio buffer (4096 bytes): `fwrite` would
  write them in several parts, between which other processes may read or write,
  and `INCOMPLETE_WRITE_CONFIG_ERROR` could be returned. `ReadableWhenQuiet`, in
  the run and in its proof, rests on texts that are written at once.
* Lengths in bytes, where only comparisons matter: `TextSize` counts tags and
  `ListKeys` of FileTags keys. A text of fewer tags with longer names may be the
  longer one, and a list of as many keys may have outgrown its buffer.
* A search whose configuration file cannot be loaded: `search-tag-file.c:363-366`
  fails before anything is looked at, and SearchTagFile starts with the tree. Nor
  errors of the second `listxattr` other than that of a list that outgrew its
  buffer, as when access is lost between the two calls.
* In JsonList, the recursion of `get_parent_array`: the array is the one that
  holds the cell `get_tag` finds. JsonTree has that recursion, and
  `LookupsAgree` is that the two find the same object.
* What a process does after it has written behind an array (SearchParams stops
  there; see the bounds above).
* Entries that appear, vanish or change their kind during a search; relative
  links to anything but a directory above.
* The Makefile: two lists of shell commands that run once, by hand. Their
  outcome is the initial state of the configuration file.

## 6. Plan

That **JsonTree** implements TagEdits, as JsonList is shown to: its recursive
operators would first have to become recursive functions of a number of nested
calls, as those along the pointers of JsonList are. Its runs compare the two on
all small files, damaged ones among them.
