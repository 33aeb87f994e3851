SPECIFICATION MCSpec
CONSTANTS
    NoEvent = NoEvent
    Slots <- SplitSlots
    Sees <- SplitSees
    Validators = {1, 2, 3, 4}
    Weight <- MCWeight
    Events <- MCEvents
    Creator <- MCCreator
    Elections = {1, 2}
    Subjects = {1, 2, 3, 4}
    PossibleRoots <- MCPossibleRoots
    n1 = n1
    n2 = n2
    Nodes = {n1, n2}
INVARIANTS
    DecisionsFinal
    OneCandidate
    Agreement
    NeverFails
    VotesAreCanonical
SYMMETRY MCSymmetry
CHECK_DEADLOCK FALSE
