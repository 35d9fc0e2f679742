SPECIFICATION Spec
CONSTANTS
  InitialGas = 6
  StaticCosts = {1}
  RETURN_COST = 1
  Amounts = {0, 2}
  Bounds = {2}
  U32_MAX = 20
  Stipends = {1}
  MandatedGas = 2
  DecommitCosts = {1}
  Share = 4
  GasLimits = {2}
  MaxDepth = 3
  MaxSnapshots = 1
INVARIANTS
  TypeOK
  EveryCallBalances
  GrowthIsCharged
  CallerKeepsItsShare
  LimitIsEnforced
PROPERTIES
  RunsEnd
