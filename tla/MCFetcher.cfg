SPECIFICATION Spec
CONSTANTS
    Items = {1, 2}
    Peers = {"p", "q"}
    Calls <- MCCalls
    HashLimit = 3
    MaxBatch = 2
    MaxQueuedBatches = 1
    MaxParallelRequests = 1
INVARIANTS
    FetchingIsWatched
CHECK_DEADLOCK FALSE
PROPERTIES
    OverdueIsHandled
    SuspendedIsAsked
    StopReturns
