CONSTANTS
  BaseBlockSize = 3
  ExtraBlockSize = 2
  KeyBlockSize = 2
  Keysets = {s1, s2}
  Strings <- MCStrings
  Weights = {1}
  Marker = "0"
  MaxBlocks = 4
  MaxSteps = 6
SPECIFICATION SpecKeyset
INVARIANTS
  KeysetTypeOK
  KeysReadBack
  BlocksOwnedOnce
SYMMETRY MCSymmetry
CHECK_DEADLOCK FALSE
