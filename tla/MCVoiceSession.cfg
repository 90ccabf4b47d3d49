SPECIFICATION SessionSpec
CONSTANTS
    None = None
    u1 = u1
    Versions <- MCVersions
    TransitionIds <- MCTransitionIds
    Users <- MCUsers
    Seqs <- MCSeqs
    SeqMod = 2
    MaxGateway = 4
    MaxConns = 2
    MaxFrames = 8
INVARIANTS
    SessionTypeOK
    ExecuteRecognised
    AgreedVersion
    AckedHasSession
    DowngradeTolerated
    RosterAgrees
    SeqTracks
    EntriesRight
PROPERTIES
    PreparedIsAnswered
    ExchangeSpec
CHECK_DEADLOCK FALSE
