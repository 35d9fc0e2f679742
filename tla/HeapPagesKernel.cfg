SPECIFICATION Spec
CONSTANTS
  a = a
  b = b
  h = h
  Chunks <- MCChunks
  Hashes <- MCHashes
  OlderPagesReturned = TRUE
  MaxDepth = 3
  MaxGroups = 3
SYMMETRY Symmetry
INVARIANTS LiveHeapsIntact
CHECK_DEADLOCK FALSE
