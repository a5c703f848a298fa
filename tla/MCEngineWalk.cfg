SPECIFICATION FairSpec
CONSTANTS
    p1 = p1
    p2 = p2
    m1 = m1
    c1 = c1
    x = x
    y = y
    Files <- MCFiles
    Main = "main"
    Vars = {x, y}
    Values <- MCValues
    Unset = Unset
    Pending = Pending
    Null = "NULL"
    NullText = "null"
    Empty = ""
    Truthy <- MCTruthy
    AsText <- MCAsText
    Substitute <- MCSubstitute
    Macros = {m1}
    Conns = {c1}
    EnvNames = {"E"}
    Phases <- MCPhases
    NoPhase = NoPhase
    NoTarget = NoTarget
    Otherwise = Otherwise
    NoBody = NoBody
    Nodes <- BothNodes
    Programs <- BothPrograms
    Requests = {NoPhase, p1}
    StackLimit = 6
CHECK_DEADLOCK FALSE
INVARIANTS NoReentry FramesKeepTheirOwn
PROPERTIES TemplateSandbox CompletedIsDefined OnlyTheDocumentAdvances Terminates
