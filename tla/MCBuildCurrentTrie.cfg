CONSTANTS
  LabelSize = 2
  CacheShift = 1
  MaxKeys = 3
  MaxLength = 3
  Inputs <- MCInputs
SPECIFICATION Spec
INVARIANTS
  TypeOK
  PendingKeysOnce
  RangesHoldExtensions
  TerminalsIdentifyKeys
  PathsSpellKeys
  CacheHitsAreChildren
CHECK_DEADLOCK FALSE
