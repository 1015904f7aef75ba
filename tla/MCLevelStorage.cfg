CONSTANTS
  GroupBits = 4
  ByteBits = 2
  LinearBlocks = 1
  LabelSize = 2
  BitInputs <- MCBitInputs
  WordBits <- MCWordBits
  LinkTables <- MCLinkTables
SPECIFICATION SpecStorage
INVARIANTS
  BitsTypeOK
  RanksCount
  SelectsFind
  PackedValuesRead
  NoMemoryLeaks
  LinksRead
CHECK_DEADLOCK FALSE
