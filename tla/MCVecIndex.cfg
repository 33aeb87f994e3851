\* One cheater, any DAG of up to five events.
CONSTANTS
    Validators = {1, 2, 3}
    Weight <- MCWeight
    Ids <- MCIds
    NoEvent = NoEvent
    Cheaters = {1}
    MaxSeq = 3
    MaxBranchesPerValidator = 6
    Builder = 2
    ByteBase = 256
    MaxBuilds = 2
    Forked = 1
    Honest2 = 2
    Honest3 = 2
    MaxOthers = 2
    MaxEvents = 5
    BuildAt = {3}
    ChooseAt = {3, 4}
    Payload <- MCPayload
SPECIFICATION MCSpec
INVARIANTS ForklessCauseIsExact MergedIsExact ForksNotBothCause BuildIsExact ParentsAreBest
CHECK_DEADLOCK FALSE
