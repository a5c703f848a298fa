\* Some seven hundred texts, with each of 19 sets of options and four collections.
SPECIFICATION DbSpec
CONSTANTS
  Name <- MCName
  Rank <- MCRank
  Env <- MCEnv
  Conditions <- MCConditions
  Wheres <- MCWheres
  Odd <- MCOdd
  Options <- MCOptions
  Stored <- MCStored
CHECK_DEADLOCK FALSE
INVARIANTS SelectsWhatItSays 
