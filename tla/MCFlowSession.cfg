SPECIFICATION Spec
CONSTANTS
    Sids = {"", "s1", "s2"}
    NoSid = ""
    Names = {"a.md", "./a.md"}
    Paths = {"/a.md"}
    FullPath <- OneDocument
    p1 = p1
    p2 = p2
    build = build
    audit = audit
    Phases <- MCPhases
    NoPhase = NoPhase
    Docs <- MCDocs
    Unreadable = Unreadable
    Plain = Plain
    Declared <- MCDeclared
    FirstStatic <- MCFirstStatic
    Outcomes <- MCOutcomes
    Scopes <- MCScopes
    Fresh = "unset"
    NoEntry = NoEntry
    NoReply = NoReply
    TTL_MS = 1
    MaxTime = 3
PROPERTIES ImplementsFlowScope LoadCollectsExpired
