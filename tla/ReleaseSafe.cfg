SPECIFICATION Spec
CONSTANTS
    Runs = {r1, r2}
    TagsByHand = TRUE
    MaxCommits = 3
    MaxFailures = 2
SYMMETRY RunSymmetry
INVARIANTS IInv TaggedTogether GoTagAfterNpm PublicIsComplete
PROPERTY LateRepairKeepsLatest
CHECK_DEADLOCK FALSE
