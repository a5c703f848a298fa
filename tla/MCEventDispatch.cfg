SPECIFICATION FairSpec
CONSTANTS
    Procs <- MCProcs
    Documents <- MCDocuments
    Configs <- MCConfigs
    NoConfig <- MCNoConfig
    Paths <- MCPaths
    Urls <- MCUrls
    Refused <- MCRefused
    MAX_LENGTH = 4
    Width = 3
    MaxRenders <- MCMaxRenders
CHECK_DEADLOCK FALSE
INVARIANTS NoHalfSecret AsTheDocumentSays
PROPERTY ImplementsBus
