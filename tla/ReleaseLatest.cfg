SPECIFICATION Spec
CONSTANTS
    Runs = {r1, r2}
    TagsByHand = FALSE
    MaxCommits = 2
    MaxFailures = 0
PROPERTY LatestNotDisplaced
CHECK_DEADLOCK FALSE
