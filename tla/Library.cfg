SPECIFICATION LibrarySpec
CONSTANTS
    Threads = {"a", "b", "c"}
    MaxParses = 2
    MaxSteps = 6
    Leaves = {"text", "bytes", "number"}
    Roots = {"struct"}
    MaxText = 10
INVARIANTS
    TypesOK
    ParsesWithAWholeEngine
    BaseCheckIsExact
    WithheldWithReason
    RendersLines
    StateIsNesting
PROPERTIES
    OneEngineForAll
    AgainIsHarmless
    EveryCallEnds
CHECK_DEADLOCK FALSE
