CONSTANTS
    Validators = {1, 2, 3}
    Weight <- MCWeight
    Ids <- MCIds
    NoEvent = NoEvent
    Cheaters = {3}
    MaxSeq = 5
    n1 = n1
    n2 = n2
    Nodes = {n1, n2}
    Creator <- MCCreator
    SealFrame = 2
    MaxFrameStep = 3
    MaxFrame = 6
    MaxEvents = 7
    MaxOf <- MCMaxOf
SPECIFICATION MCSpec
INVARIANTS SameBlocks BlocksComplete StateFollowsEvents BuiltFramesAccepted RootsFitElection
CHECK_DEADLOCK FALSE
