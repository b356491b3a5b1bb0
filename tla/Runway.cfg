SPECIFICATION Spec
CONSTANTS
    a = a
    b = b
    Other = Other
    Leaves <- MCLeaves
    Base <- MCBase
    Code <- MCCode
    Words = 16
    Quantum = 1
PROPERTIES Transparent InterruptsReturn
CHECK_DEADLOCK FALSE
