SPECIFICATION Spec
CONSTANTS
  HEAP_CHUNK_SIZE = 2
  WORD = 2
  Size = 4
  Bytes = {0, 1}
  Words <- MCWords
  Strings <- MCStrings
  MaxJournal = 2
VIEW state
INVARIANTS TypeOK EqualIfReadAlike
PROPERTY ImplementsZeroedMemory
CHECK_DEADLOCK FALSE
