SPECIFICATION ScriptsSpec
CONSTANTS
    Kinds <- MCKinds
    MaxVersion = 2
    MaxKills = 1
    Rules = {"a", "b"}
    MaxHits = 2
    MaxFiles = 2
    MaxTerms = 1
    MaxEdits = 3
    IniLines <- MCIniLines
    MaxLines = 4
    HitsOf <- MCHitsOf
INVARIANTS
    CopiesAreTrue
    RefusalWritesNothing
    
    RewriteIsRight
CHECK_DEADLOCK FALSE
