SPECIFICATION PluginSpec
CONSTANTS
    Names <- PluginNames
    Roots <- PluginRoots
    Cwd = "home"
    Jailed = {"app"}
    ProjectDir <- OwnDirectory
    Texts <- PluginTexts
    Parts <- PluginParts
    Paths <- PluginPaths
    Values <- PluginValues
    Expected <- ExpectedVersions
    Writable = {"signal", "runs code"}
    Installations <- PluginWorlds
    MaxEdits = 1
    MaxJobs = 2
CHECK_DEADLOCK FALSE
INVARIANT FoundOrExplained
PROPERTY DetectedAsWritten
