SPECIFICATION Spec
CONSTANTS
    Me = me
    Other = other
    Peers = {me, other}
    SenderThreads = 2
    MaxSenderTasks = 1
    MaxPendingResponsesSize = 2
    MaxResponseChunks = 2
    MaxResponsePayloadNum = 2
    MaxGlobalSessions = 2
    MaxRequests = 1
    MaxPeerSessions = 1
    MaxEvents = 2
    ParallelChunksDownload = 2
    MaxSessions = 2
    Start = 1
    Stop = 3
    ItemsNum = 1
    FirstItems = {1, 3}
    LateItems = {2}
    OtherRequests <- MCOtherRequests
INVARIANTS
    ChunksAreUnderWay
    ReceivedIsRange
    NoChunkForgotten
    ReaderWakes
    SessionsBounded
CHECK_DEADLOCK FALSE
