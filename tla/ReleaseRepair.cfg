SPECIFICATION FairSpec
CONSTANTS
    Runs = {r1, r2}
    TagsByHand = TRUE
    MaxCommits = 2
    MaxFailures = 1
PROPERTY HalfReleasesFinish
CHECK_DEADLOCK FALSE
