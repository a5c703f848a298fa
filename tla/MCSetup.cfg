SPECIFICATION Spec
CONSTANTS
    Runs = {"first", "second"}
    Options <- SetupOptions
    UserHooks = {"own", "my preToolUse"}
    PreLookalikes = {"my preToolUse"}
    StartLookalikes = {"own"}
    UserServers = {"other"}
    UserLines = {"line", "more"}
    Documents <- SetupDocuments
    Worlds <- SetupWorlds
CHECK_DEADLOCK FALSE
INVARIANTS NothingLeaks InstallationIsSound
PROPERTY TextsAreKept
