SPECIFICATION FairSpec
CHECK_DEADLOCK FALSE
CONSTANTS
  Message = {m1}
  MaxNodes = 1
  Job = {1, 2}
  Poller = {1, 2}
  MaxOps = 4
  MaxFaults = 1
INVARIANTS
  GuiInv
  AckedIsAccounted
PROPERTIES
  RemovedStaysAway
  PollingEnds
  EventuallyShown
