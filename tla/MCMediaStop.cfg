SPECIFICATION Spec
CONSTANTS
    None = None
    Streams <- MCStreams
    Files <- Skewed
    Cap = 2
    Tolerance = 1
    Setups <- Mutual
PROPERTY
    StopReturns
CHECK_DEADLOCK FALSE
