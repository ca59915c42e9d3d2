SPECIFICATION PSpec
CONSTANTS
    f1 = f1
    f2 = f2
    f3 = f3
    top = top
    sub = sub
    back = back
    n1 = n1
    n2 = n2
    n3 = n3
    other = other
    Name = {n1, n2, n3}
    NestingLimit = 1000
    File = {f1, f2, f3}
    Dir = {top, sub}
    Top = top
    Parent <- ParentOfEntry
    Link = {}
    Target <- NoTargets
    MaxLinks = 0
    NameLen <- Lengths
    Nul = nul
    Garbage = garbage
    Trees <- ThreeTrees
    Expressions <- Searches
    Other = other
    KeySize <- Sizes
    KeyLists <- Lists
    Blocked <- OneThing
    Events = {}
INVARIANTS
    TypeOK
    SuccessIsComplete
    PositiveSearchIsExact
PROPERTIES
    PathNamesEntry
\* The search ends.
CHECK_DEADLOCK FALSE
