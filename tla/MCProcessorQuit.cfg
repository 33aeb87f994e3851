SPECIFICATION Spec
CONSTANTS
    Ids = {1, 2, 3}
    Arrivals = {1, 2, 3, 4}
    Dags <- MCDags
    EventOf <- MCEventOf
    Size <- MCSize
    Important = {}
    Limit <- MCLimit
    Own = {}
    Callers <- MCBatches
    EventsIn <- MCEventsIn
    Ask <- MCAsk
    Ordered = {"A"}
    MaxTasks = 1
    Capacity <- MCCapacity
INVARIANT
    NoneReleasedTwice
CHECK_DEADLOCK FALSE
