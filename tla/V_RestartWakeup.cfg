SPECIFICATION Spec
CONSTANTS
    counter = counter
    embedded = embedded
    hog = hog
    shell = shell
    none = none
    NSlots = 2
    Programs <- MCCounter
    Embedded <- MCNone
    Leaf <- MCNone
    ShellProgram = shell
    NoProgram = none
    Demand <- MCDemand
    ShellDemand <- MCShellDemand
    StackTop = 20
    StackLimit = 10
    HeapBase = 5
    HeapTop = 20
    TtyCapacity = 1
    SyncStateWords = 1
    ShellCalls = {"getchar"}
    ChildCalls = {}
    Faults = {}
    Requests = {"restart"}
    Frames = {"plain"}
INVARIANTS RequestKeepsShellRunnable
