CONSTANTS
  LabelSize = 2
  CacheShift = 1
  InvalidExtra = 1000
  MaxKeys = 3
  MaxLength = 3
  Inputs <- MCInputs
SPECIFICATION SpecBuild
INVARIANTS
  BuildTypeOK
  TrieHoldsKeyset
  IdsNumberKeys
  CachesGiveLabels
  LevelsReportBuild
  NestingInferred
CHECK_DEADLOCK FALSE
