SPECIFICATION Spec
CONSTANTS
    f1 = f1
    f2 = f2
    f3 = f3
    top = top
    sub = sub
    back = back
    n1 = n1
    n2 = n2
    n3 = n3
    other = other
    Name = {n1, n2, n3}
    NestingLimit = 1000
    File = {f1, f2, f3}
    Dir = {top, sub}
    Top = top
    Parent <- ParentOfEntry
    Link = {}
    Target <- NoTargets
    MaxLinks = 0
    Trees <- OneTree
    Expressions <- Searches
    Other = other
    KeySize <- Sizes
    KeyLists <- Lists
    Blocked <- Nothing
    Events = {}
INVARIANTS
    PrintedFilesMatch
\* The search ends.
CHECK_DEADLOCK FALSE
