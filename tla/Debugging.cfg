SPECIFICATION Spec
CONSTANTS
    None = None
    Default = 4
    Most = 6
    Window = 12
    Sessions <- MCSessions
    Reads <- MCReads
INVARIANTS UnitsExact ViewCurrent DecodedOnce InstructionsListed
CHECK_DEADLOCK FALSE
