CONSTANTS
    t1 = t1
    t2 = t2
    t3 = t3
    good = good
    lossy = lossy
    bad = bad
    broken = broken
    crash = crash
    Threads <- ThreeThreads
    Sources <- GoodOrCrash
    Verdict <- TwoVerdicts
    Asked <- AskedSome
    MaxInstances = 3
SPECIFICATION Spec
SYMMETRY AnyThread
INVARIANTS
    NoRegistryRace
    FreedStaysFreed
    EnginesNotShared
    AnswersItsOwnSource
