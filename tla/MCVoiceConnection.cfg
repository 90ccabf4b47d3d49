SPECIFICATION Spec
CONSTANTS
    None = None
    u1 = u1
    Versions <- MCVersions
    TransitionIds <- MCTransitionIds
    Users <- MCUsers
    Seqs <- MCSeqs
    MaxFrames = 3
INVARIANTS
    TypeOK
    PendingAcknowledged
    KeyPackageBacked
    EventsBacked
    GreetingFirst
PROPERTIES
    WriterStops
    QueuedIsWritten
CHECK_DEADLOCK FALSE
