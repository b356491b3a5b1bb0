SPECIFICATION Spec
CONSTANTS
    Capacity = 6
    Byte <- MCByte
    MaxPayload = 4
    Units <- MCUnescaped
    MaxUnits = 2
    UptimeForeground = TRUE
INVARIANTS ControlsExact
CHECK_DEADLOCK FALSE
