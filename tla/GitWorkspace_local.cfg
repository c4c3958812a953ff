SPECIFICATION Spec
CONSTANTS
    c1 = c1
    c2 = c2
    Changes <- MCChanges
    Pushes <- MCNoPush
    MaxCommits = 3
SYMMETRY MCSymmetry
INVARIANTS PinIsObtainable
CHECK_DEADLOCK FALSE
