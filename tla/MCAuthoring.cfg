CONSTANTS
    NoOutput = NoOutput
    NoEdit = NoEdit
    Drafts <- MCDrafts
    Halves <- MCHalves
    Budgets <- MCBudgets
    Macros <- MCMacros
    StdlibMacros <- MCStdlibMacros
    Workloads <- MCWorkloads
SPECIFICATION AuthoringSpec
INVARIANTS OutputIsCurrent BudgetGoesByRank EditorKeepsUp
PROPERTIES TagsFit SavesAreRendered
