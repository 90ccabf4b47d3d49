SPECIFICATION Spec
CONSTANTS
    WordBits = 16
    Frames <- MCFrames
INVARIANTS
    TypeOK
    UnitsFound
    WriterEscapes
    SpsPatched
    PanicsOnEarlyEnd
    FrameSent
CHECK_DEADLOCK FALSE
