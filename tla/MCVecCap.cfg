\* The cap on branches, scaled down from 1024 to 2.
CONSTANTS
    Validators = {1, 2, 3}
    Weight <- MCWeight
    Ids <- MCIds
    NoEvent = NoEvent
    Cheaters = {1}
    MaxSeq = 3
    MaxBranchesPerValidator = 2
    Builder = 2
    ByteBase = 256
    MaxBuilds = 0
    Forked = 1
    Honest2 = 2
    Honest3 = 2
    MaxOthers = 2
    MaxEvents = 5
    BuildAt = {}
    ChooseAt = {}
    Payload <- MCPayload
SPECIFICATION MCSpec
INVARIANT ComputedForksNotBothCause
CHECK_DEADLOCK FALSE
