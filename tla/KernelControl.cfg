SPECIFICATION Spec
CONSTANTS
    counter = counter
    embedded = embedded
    hog = hog
    shell = shell
    none = none
    NSlots = 3
    Programs <- MCCounter
    Embedded <- MCNone
    Leaf <- MCNone
    ShellProgram = shell
    NoProgram = none
    Demand <- MCDemand
    ShellDemand <- MCShellDemand
    StackTop = 20
    StackLimit = 10
    HeapBase = 5
    HeapTop = 20
    TtyCapacity = 1
    SyncStateWords = 1
    ShellCalls = {"getchar", "spawn", "sync", "joinAll", "claim", "kill", "join", "reboot"}
    ChildCalls = {"yield", "getchar", "exit"}
    Faults = {}
    Requests = {"restart", "reboot"}
    Frames = {"plain", "hello", "tty", "kill"}
INVARIANTS TypeOK NoLostKeystroke FocusAlive SyncDescriptorExact
PROPERTIES ImplementsTable
