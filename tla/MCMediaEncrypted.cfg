SPECIFICATION Spec
CONSTANTS
    None = None
    Versions <- MCVersions
    SeqMod = 2
    TimeMod = 6
    FrameTimes <- MCFrameTimes
    Starts <- MCStarts
    MaxCalls = 6
INVARIANT MediaEncrypted
CHECK_DEADLOCK FALSE
