SPECIFICATION FairSpec
CONSTANTS
    f1 = f1
    f2 = f2
    f3 = f3
    top = top
    sub = sub
    back = back
    n1 = n1
    n2 = n2
    n3 = n3
    other = other
    Name = {n1, n2, n3}
    NestingLimit = 1000
    File = {f2, f3}
    Dir = {top, sub, back}
    Top = top
    Parent <- ParentInLoop
    Link = {back}
    Target <- BackToTop
    MaxLinks = 1
    Trees <- OneTree
    Expressions <- RetagExpressions
    Other = other
    KeySize <- Sizes
    KeyLists <- FewLists
    Blocked <- NothingOrFile
    Events = {"retag"}
INVARIANTS
    LoopFails
PROPERTIES
    JudgedRight
    SearchEnds
\* The search ends.
CHECK_DEADLOCK FALSE
