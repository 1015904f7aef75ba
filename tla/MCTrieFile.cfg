CONSTANTS
  Handles = {h1, h2}
  Tries <- MCTries
  NoTrie = NoTrie
  AlignCells = 2
  HeaderCells <- MCHeader
  MaxValueSize = 32
  MaxStored = 2
SPECIFICATION SpecFile
INVARIANTS
  FileTypeOK
  FileReadsBack
  
  StreamAtNextTrie
PROPERTY
  FileImplementsStore
