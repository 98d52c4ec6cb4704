SPECIFICATION ReadersSpec
CONSTANTS
    HeaderKeys <- MCHeaderKeys
    StatementKeys <- MCStatementKeys
    Values <- MCValues
    ItemNames <- MCItemNames
    MaxStatements = 5
    MaxCargoStatements = 4
    Repos = {"jsonl", "json", "parser"}
    Crate = "jsonl"
    Edition2024 = FALSE
    TomlHeaders <- MCTomlHeaders
    TomlKeys <- MCTomlKeys
    TomlValues <- MCTomlValues
    NpmRepos = {"jsonl", "json"}
    Specifiers <- MCSpecifiers
    Keys = {"json", "other"}
    Package = "jsonl"
    MaxEntries = 4
    HeaderLines <- MCHeaderLines
    MaxHeaderLines = 5
    Paths = {"fmt", "json"}
    MaxDecls = 2
    MaxSpecs = 2
    ModLines <- MCModLines
    Files <- MCFiles
    Module <- MCModule
    Org = "github.com/tabnas"
    Hosts = {"github.com/tabnas", "ext.com"}
    MaxModLines = 4
    MaxFiles = 2
INVARIANTS
    TreeIsTheDocument
    CargoAsStated
    NpmAsInstalled
    
    ModAsWritten
    NothingUnseen
CHECK_DEADLOCK FALSE
