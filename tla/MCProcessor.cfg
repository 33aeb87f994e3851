SPECIFICATION Spec
CONSTANTS
    Ids = {1, 2, 3}
    Arrivals = {1, 2, 3}
    Dags <- MCDags
    EventOf <- MCEventOf
    Size <- MCSizes
    Important = {}
    Limit <- MCLimit
    Own = {1}
    Callers <- MCTwoBatches
    EventsIn <- MCEventsIn
    Ask <- MCAsk
    Ordered = {"A"}
    MaxTasks = 1
    Capacity <- MCTight
INVARIANTS
    WaitersMustWait
    SlotsAccounted
    OrderKept
    DoneIsHandled
PROPERTIES
    AcceptedIsDone
    AcquireReturns
    StopReturns
CHECK_DEADLOCK FALSE
