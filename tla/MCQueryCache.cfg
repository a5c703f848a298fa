\* Two callers with ten calls; one tick of the clock is the TTL and the time
\* a worker has.
SPECIFICATION FairSpec
CONSTANTS
  server = server
  c1 = c1
  c2 = c2
  Name <- MCName
  Rank <- MCRank
  Env <- MCEnv
  Directives = {"", "http"}
  Procs = {server}
  Callers = {c1, c2}
  Home <- MCHome
  Calls <- MCCalls
  Of <- MCOf
  Rules <- MCRules
  Registered = {"main"}
  Supported = {"main", "bare"}
  Tables <- MCTables
  RowsOf <- MCRowsOf
  Rows <- MCRows
  Lists <- MCLists
  Masked <- MCMasked
  Corrupt = Corrupt
  NoEntry = NoEntry
  NoRender = NoRender
  Idle = Idle
  TTL = 0
  WORKER_MS = 1
  MaxTime = 1
CHECK_DEADLOCK FALSE
INVARIANT EntriesAreHonest
PROPERTIES SessionIsStable CallsEnd
