SPECIFICATION Spec
CONSTANTS
  None = None
  Keys = {paid_slot}
  TransientKeys = {t}
  Values = {0}
  FreeSlots = {}
  InitialValue <- MCInitialValue
  WriteCost <- MCWriteCost
  Messages = {m}
  Hashes = {g, h}
  Pages = {p}
  PubdataExtras = {7}
  ColdRead = 4
  WarmRead = 1
  ColdWrite = 9
  WarmWrite = 2
  CallKinds = {"near", "far"}
  HostAnywhere = FALSE
  MaxAccesses = 1
  MaxMessages = 1
  MaxPubdata = 7
  MaxDecommits = 2
  MaxDepth = 2
VIEW KindsAside
SYMMETRY HashesAlike
INVARIANTS
  TypeOK
  SnapshotsNest
  PinnedPagesAreSucceeded
PROPERTIES
  ImplementsAbstractWorld
CHECK_DEADLOCK FALSE
