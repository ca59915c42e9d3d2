SPECIFICATION HSpec
CONSTANTS
    n1 = n1
    n2 = n2
    n3 = n3
    Name = {n1, n2}
    Proc = {p1, p2}
    Command <- Edits
    Faults = {}
    NestingLimit = 1000
PROPERTIES
    OnlyRemovalRemoves
