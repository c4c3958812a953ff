SPECIFICATION Spec
CONSTANTS
    c1 = c1
    c2 = c2
    Changes <- MCChanges
    Pushes <- MCPush
    MaxCommits = 5
SYMMETRY MCSymmetry
INVARIANTS TypeOK PinIsObtainable WorkIsPublished FinishedIsPinned
CHECK_DEADLOCK FALSE
