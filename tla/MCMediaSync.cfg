SPECIFICATION Spec
CONSTANTS
    None = None
    Streams <- MCStreams
    Files <- AllFiles
    Cap = 2
    Tolerance = 1
    Setups <- AllSetups
INVARIANTS
    TypeOK
    NothingLost
    InOrder
    SyncStateCurrent
PROPERTIES
    PlaybackEnds
    StopObeyed
    PlaybackSpec
CHECK_DEADLOCK FALSE
