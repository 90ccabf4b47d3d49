SPECIFICATION Spec
CONSTANTS
    None = None
    Versions <- MCVersions
    SeqMod = 2
    TimeMod = 6
    FrameTimes <- MCFrameTimes
    Starts <- MCStarts
    MaxCalls = 8
INVARIANTS
    TypeOK
    SeqContinuous
    TimestampFollowsMedia
    ReconfiguredAfterClose
CHECK_DEADLOCK FALSE
