SPECIFICATION Spec
CONSTANTS
    n1 = n1
    n2 = n2
    n3 = n3
    Name = {n1, n2, n3}
    NestingLimit = 1000
    Trees <- Chains
    Expressions <- OneOrTwo
INVARIANTS
    ArrayHoldsNames
\* The expression ends.
CHECK_DEADLOCK FALSE
