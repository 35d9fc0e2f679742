SPECIFICATION SpecBoth
CONSTANTS
  Instrs <- MCInstrs
  CodeLength = 3
  CodePage <- MCCodePage
  LastRegister = 3
  U32_MAX = 15
  LimbBits = 4
  U16 = 4
  WORD = 2
  CalldataPage = 2
  CalldataStart = 1
  CalldataLength = 3
  BasePage = 4
  CalleePage = 9
  CalleeSize = 3
  PinnedPage = 1
  RightCalldataPage = 3
  RightBasePage = 5
  RightCalleePage = 10
  RightPinnedPage = 2
  Stipends = {2}
  KernelStipend = 3
  InitialGas = 15
  Words <- MCWords
  Callees <- MCCallees
  Modes <- MCModes
INVARIANTS
  PointersStayGranted
  AccessesArePaid
  OverflowIsCharged
  PagesAreInvisible
CHECK_DEADLOCK FALSE
