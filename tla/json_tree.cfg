SPECIFICATION Spec
CONSTANTS
    Name = {n1, n2, n3, n4}
    NoName = noname
    NestingLimit = 1000
    Files <- HandWrittenFiles
    MaxObjects = 4
SYMMETRY Symmetry
INVARIANTS
    LookupsAgree
    FoundIsListed
PROPERTIES
    StepsAreEdits
    NothingElseLost
\* A file that is damaged before its first tag may admit no command.
CHECK_DEADLOCK FALSE
