CONSTANTS
    t1 = t1
    t2 = t2
    t3 = t3
    good = good
    lossy = lossy
    bad = bad
    broken = broken
    crash = crash
    Threads <- TwoThreads
    Sources <- EveryVerdict
    Verdict <- AllVerdicts
    Asked <- AskedTwo
    MaxInstances = 2
SPECIFICATION Spec
INVARIANTS
    IInv
PROPERTIES
    Linearizable
