SPECIFICATION Spec
CONSTANTS
    Name = {n1, n2, n3}
    Proc = {p1}
    Command <- CommandLines
    Faults = {"kill", "io"}
    \* Tags of depth 2 and more cannot be parsed.
    NestingLimit = 6
PROPERTIES
    ImplementsEdits
    NoRepair
