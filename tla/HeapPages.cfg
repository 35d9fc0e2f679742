SPECIFICATION Spec
CONSTANTS
  a = a
  b = b
  h = h
  Chunks <- MCChunks
  Hashes <- MCHashes
  OlderPagesReturned = FALSE
  MaxDepth = 3
  MaxGroups = 3
SYMMETRY Symmetry
INVARIANTS TypeOK LiveHeapsIntact HeldPointersReadable PinnedPagesIntact NothingLeaks OnlyRollbackPanics
PROPERTIES RollbackRestoresPages
CHECK_DEADLOCK FALSE
