SPECIFICATION Spec
CONSTANTS
    Runs = {r1, r2}
    TagsByHand = FALSE
    MaxCommits = 2
    MaxFailures = 1
INVARIANT TagsNameWhatNpmServes
CHECK_DEADLOCK FALSE
