\* Bytes scaled down from 256 values to 2: the second sample is a multiple of the base.
CONSTANTS
    Validators = {1, 2, 3}
    Weight <- MCWeight
    Ids <- MCIds
    NoEvent = NoEvent
    Cheaters = {1}
    MaxSeq = 3
    MaxBranchesPerValidator = 4
    Builder = 2
    ByteBase = 2
    MaxBuilds = 2
    Forked = 1
    Honest2 = 2
    Honest3 = 2
    MaxOthers = 2
    MaxEvents = 4
    BuildAt = {0,1,2,3,4,5,6}
    ChooseAt = {}
    Payload <- MCPayload
SPECIFICATION MCSpec
INVARIANT BuildIsExact
CHECK_DEADLOCK FALSE
