SPECIFICATION FairSpec
CONSTANTS
    counter = counter
    embedded = embedded
    hog = hog
    shell = shell
    none = none
    NSlots = 3
    Programs <- MCCounterHog
    Embedded <- MCLeaf
    Leaf <- MCLeaf
    ShellProgram = shell
    NoProgram = none
    Demand <- MCSlight
    ShellDemand <- MCShellDemand
    StackTop = 40
    StackLimit = 10
    HeapBase = 5
    HeapTop = 10
    TtyCapacity = 1
    SyncStateWords = 1
    ShellCalls = {"getchar", "spawn", "joinAll", "kill"}
    ChildCalls = {"yield", "getchar", "exit"}
    Faults = {}
    Requests = {"restart", "reboot"}
    Frames = {"plain"}

PROPERTIES RestartServed RebootServed KillServed RunnableDispatched
