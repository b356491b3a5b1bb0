SPECIFICATION Spec
CONSTANTS
    counter = counter
    embedded = embedded
    hog = hog
    shell = shell
    none = none
    NSlots = 3
    Programs <- MCCounter
    Embedded <- MCNone
    Leaf <- MCNone
    ShellProgram = shell
    NoProgram = none
    Demand <- MCDemand
    ShellDemand <- MCShellDemand
    StackTop = 20
    StackLimit = 10
    HeapBase = 5
    HeapTop = 8
    TtyCapacity = 1
    SyncStateWords = 1
    ShellCalls = {"yield", "spawn"}
    ChildCalls = {"exit"}
    Faults = {}
    Requests = {}
    Frames = {}
INVARIANTS ArenaSound
