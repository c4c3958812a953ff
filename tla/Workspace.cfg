SPECIFICATION Spec
CONSTANTS
    u1 = u1
    c1 = c1
    c2 = c2
    Upstream <- MCUpstream
    Changes <- MCChanges
    MaxPatches = 2
SYMMETRY MCSymmetry
INVARIANTS TypeOK ClosedRebuilds WorkIsSomewhere
PROPERTIES PatchFilesStay
CHECK_DEADLOCK FALSE
