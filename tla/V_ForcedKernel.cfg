SPECIFICATION Spec
CONSTANTS
    a = a
    b = b
    Other = Other
    Leaves <- MCLeaves
    Base <- MCBase
    Code <- MCCode
    Words = 16
    Quantum = 1
INVARIANT NeverAstray
CHECK_DEADLOCK FALSE
