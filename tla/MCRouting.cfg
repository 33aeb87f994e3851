SPECIFICATION Spec
CONSTANTS
    Requests <- MCRequests
    Keys <- MCKeys
    Configs <- MCConfigs
    Producers = {"T", "U"}
    MaxStarts = 3
    MaxWrites = 1
INVARIANTS
    ReadsOwn
    VerifiedFindsAll
CHECK_DEADLOCK FALSE
