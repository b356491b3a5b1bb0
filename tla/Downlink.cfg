SPECIFICATION Spec
CONSTANTS
    None = None
    HostMaxPayload = 1024
    Endpoints = {1, 2}
    Typed <- MCTyped
    Reads <- MCReads
    MaxUnits = 2
    MaxAir = 13
    MaxFaults = 1
    Bursts <- MCBursts
INVARIANTS Conservation AckNotMissed ReadsEquivalent SnapshotTrue
PROPERTIES FrameSoundHost LossCostsOneFrame Negotiated
CHECK_DEADLOCK FALSE
