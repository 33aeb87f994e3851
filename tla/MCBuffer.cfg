SPECIFICATION BufSpec
CONSTANTS
    Ids = {1, 2, 3, 4}
    Arrivals = {1, 2, 3, 4, 5, 6}
    Dags <- MCDags
    EventOf <- MCEventOf
    Size <- MCSize
    Important = {3}
    Limit <- MCLimit
    Own = {2}
INVARIANTS
    ReleasedOnce
    NoneLeftWaiting
    ReleasesAreTrue
CHECK_DEADLOCK FALSE
