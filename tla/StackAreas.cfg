SPECIFICATION Spec
CONSTANTS
  NUMBER_OF_DIRTY_AREAS = 2
  SUBCHUNKS_PER_AREA = 2
  SUBCHUNK_SLOTS = 2
  Used <- MCUsed
  Words <- MCWords
  MaxDepth = 2
VIEW state
INVARIANT TypeOK
PROPERTY ImplementsZeroedMemory
CHECK_DEADLOCK FALSE
