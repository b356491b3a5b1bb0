SPECIFICATION SpecWithHistory
CONSTANTS
    counter = counter
    embedded = embedded
    hog = hog
    shell = shell
    none = none
    NSlots = 3
    Programs <- MCPrograms
    Embedded <- MCEmbedded
    Leaf <- MCLeaf
    ShellProgram = shell
    NoProgram = none
    Demand <- MCDemand
    ShellDemand <- MCShellDemand
    StackTop = 20
    StackLimit = 10
    HeapBase = 5
    HeapTop = 14
    TtyCapacity = 1
    SyncStateWords = 1
    ShellCalls = {"yield", "spawn", "join", "kill", "reboot"}
    ChildCalls = {"exit"}
    Faults = {"header", "payload"}
    Requests = {}
    Frames = {}
INVARIANTS ChildCountExact NoLeak ArenaSoundUnspoiled EligibleUnspoiled
PROPERTIES MemoryStable
