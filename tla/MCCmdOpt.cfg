CONSTANTS
  CommandLines <- MCCommandLines
  ShortOptions <- MCShort
  LongOptions <- MCLong
SPECIFICATION SpecOpt
INVARIANTS
  OperandsInOrder
  OptionsAsGiven
CHECK_DEADLOCK FALSE
