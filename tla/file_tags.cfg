SPECIFICATION HSpec
CONSTANTS
    Proc = {p1, p2}
    u1 = u1
    u2 = u2
    User = {u1, u2}
    File = {f1}
    Name = {n1, n2}
    EmptyName = empty
    Command <- AllLines
    Events = {"kill", "io", "edit"}
SYMMETRY Symmetry
INVARIANTS
    HistoryTypeOK
PROPERTIES
    SetTagsWereAssignable
    AssignedOnSuccess
    RemovedOnSuccess
    ClearedOnSuccess
    OthersUntouched
