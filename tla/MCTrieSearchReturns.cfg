CONSTANTS
  LabelSize = 2
  CacheShift = 1
  InvalidExtra = 1000
  MaxQuery = 2
  MaxChanges = 2
  Queries <- MCQueries
  Inputs <- MCInputs
SPECIFICATION FairSearch
PROPERTY
  CallsReturn
CHECK_DEADLOCK FALSE
