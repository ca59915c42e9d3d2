SPECIFICATION Spec
CONSTANTS
    Name = {n1, n2, n3, n4}
    NestingLimit = 1000
    Command <- Commands
    NoParent = noparent
    Null = null
    MaxTags = 4
SYMMETRY Symmetry
INVARIANTS
    ListsLinked
    EachFreedOnce
PROPERTIES
    ListsImplementEdits
    ImplementsDictionary
