CONSTANTS
  Threshold = 2
  MaxStrings = 5
  SortInputs <- MCSortInputs
SPECIFICATION SpecSort
INVARIANTS
  SortsAndCounts
  CallsSharePrefix
  StackIsLogarithmic
PROPERTY
  SortTerminates
CHECK_DEADLOCK FALSE
