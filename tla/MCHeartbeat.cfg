SPECIFICATION TimerSpec
CONSTANTS
    None = None
    u1 = u1
    Versions <- MCVersions
    TransitionIds <- MCTransitionIds
    Users <- MCUsers
    Seqs <- MCSeqs
    MaxFrames = 1
PROPERTY
    HelloStartsHeartbeat
CHECK_DEADLOCK FALSE
