SPECIFICATION FairSpec
CONSTANTS
    n1 = n1
    n2 = n2
    n3 = n3
    Name = {n1, n2, n3}
    Proc = {p1, p2}
    Command <- OrderedEdits
    Faults = {}
    \* Every tree of three tags can be parsed.
    NestingLimit = 7
INVARIANTS
    TypeOK
    NoDuplicateTag
    Forest
    ReadableWhenQuiet
PROPERTIES
    TruncationEnds
