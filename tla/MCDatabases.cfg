SPECIFICATION Spec
CONSTANTS
    Batches <- MCBatches
    Ranges <- MCRanges
    Deleted = Deleted
    NoMark = NoMark
    NoID = NoID
    PoolNames = {main, epoch}
    FlaggedNames = {log}
    MaxFlushes = 2
    MaxWrites = 2
    MaxDrops = 1
    MaxFaults = 1
SYMMETRY
    MCSymmetry
INVARIANTS
    AcceptedIsFlushed
    
    IteratorIsExact
PROPERTY
    ReadsSurviveFlush
CHECK_DEADLOCK FALSE
