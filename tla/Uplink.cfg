SPECIFICATION Spec
CONSTANTS
    Capacity = 6
    Byte <- MCByte
    MaxPayload = 4
    Units <- MCUnits
    MaxUnits = 2
    UptimeForeground = TRUE
INVARIANTS CountNeverOverstates PayloadFits FramesExact ControlsExact
PROPERTIES FifoWhileItFits FrameSound
CONSTRAINT FewLosses
CHECK_DEADLOCK FALSE
