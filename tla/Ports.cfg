SPECIFICATION FairSpec
CONSTANTS
    Ids = {"jsonl", "json"}
    This = "jsonl"
    Slips = {"note", "reason", "repair"}
    MaxEdits = 2
INVARIANTS IInv PassesIfExplained
PROPERTIES RegisterPinsDifferences AdviceConverges
