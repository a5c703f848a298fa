SPECIFICATION ServerSpec
CONSTANTS
    Sids = {"", "7", "undefined"}
    NoSid = ""
    Names = {"a.md"}
    Paths = {"/a.md"}
    FullPath <- OnePath
    p1 = p1
    p2 = p2
    flow = flow
    broken = broken
    Phases <- ServerPhases
    NoPhase = NoPhase
    Docs <- ServerDocs
    Unreadable = Unreadable
    Plain = Plain
    Declared <- ServerDeclared
    FirstStatic <- ServerFirstStatic
    Outcomes <- ServerOutcomes
    Scopes <- ServerScopes
    Fresh = "unset"
    NoEntry = NoEntry
    NoReply = NoReply
    TTL_MS = 0
    MaxTime = 1
    Lines <- ServerLines
    Ids = {1}
    NoId = NoId
    Null = Null
    SkillIds = {"7", "number 7"}
    NoSkill = "none"
    SkillText <- Text
    NotText = {"not text"}
    TooLong = {"too long"}
    Broken = {"two lines"}
    Punctuated = {"A-B", "two lines"}
    BrokenDirectives = {"@env"}
    Malformed = {broken}
    NotImportable <- ServerDocs
    LogWritable = FALSE
    MaxLines = 3
    MaxPending = 2
INVARIANTS AnsweredAsDue AnonymousStartsFresh
PROPERTIES FailuresTouchNoFlow LinesAreHandled
