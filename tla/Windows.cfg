SPECIFICATION Spec
CONSTANTS
    None = None
    Scrollback = 2
    MaxLine = 2
    MaxChannel = 3
    Names <- MCNames
    Programs <- MCPrograms
    Backlog = 3
    Stalled = 2
    Sessions <- MCSessions
    MaxLost = 2
INVARIANTS WindowsTypeOK FocusKept EndedSound OneReader TimeModesExact ScrollOnText
PROPERTIES DropsAnnounced
CHECK_DEADLOCK FALSE
