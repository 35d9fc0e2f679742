SPECIFICATION Spec
CONSTANTS
  a = a
  b = b
  h = h
  Chunks <- MCChunks
  Hashes <- MCHashes
  OlderPagesReturned = FALSE
  MaxDepth = 3
  MaxGroups = 3
SYMMETRY Symmetry
INVARIANTS DeallocationNeverPanics
CHECK_DEADLOCK FALSE
