SPECIFICATION Spec
CONSTANTS
  None = None
  Keys = {paid_slot, free_slot}
  TransientKeys = {}
  Values = {0, 1}
  FreeSlots = {free_slot}
  InitialValue <- MCInitialValue
  WriteCost <- MCWriteCost
  Messages = {}
  Hashes = {}
  Pages = {}
  PubdataExtras = {}
  ColdRead = 4
  WarmRead = 1
  ColdWrite = 9
  WarmWrite = 2
  CallKinds = {"far"}
  HostAnywhere = FALSE
  MaxAccesses = 3
  MaxMessages = 0
  MaxPubdata = 7
  MaxDecommits = 0
  MaxDepth = 2
INVARIANTS
  SnapshotStaysAhead
  DrainIsOldestEntry
  ChangesAreADiff
  OpenCallsCanFail
  WrittenSlotsAreCached
  TraceReplays
  RollbackTwins
  FlagsMatchTrace
  PubdataIsPaid
PROPERTIES
  ImplementsAbstractWorld
  RefundsFollowHistory
CHECK_DEADLOCK FALSE
