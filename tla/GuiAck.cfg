SPECIFICATION Spec
CHECK_DEADLOCK FALSE
CONSTANTS
  Message = {m1}
  MaxNodes = 1
  Job = {1, 2}
  Poller = {1, 2}
  MaxOps = 2
  MaxFaults = 1
INVARIANT AckedIsSaved
