CONSTANTS
  LabelSize = 2
  CacheShift = 1
  InvalidExtra = 1000
  MaxQuery = 3
  MaxChanges = 4
  Queries <- MCQueries
  Inputs <- MCInputs
SPECIFICATION SpecSearch
INVARIANTS
  SearchTypeOK
  HistoryFollowsLevels
PROPERTY
  ImplementsDictionary
CHECK_DEADLOCK FALSE
