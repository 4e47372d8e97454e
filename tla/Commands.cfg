\* The system may stop: the calls are all made.
CHECK_DEADLOCK FALSE
SPECIFICATION FairSpec
CONSTANTS
  user = user
  handler = handler
  Caller = {user, handler}
  Nested = handler
  MaxCalls <- TwoAndOne
  MaxRuns <- OneAndTwo
  MaxDisturbed = 1
  None = None
INVARIANTS
  CommandsInv
  RepeatedForAReason
PROPERTIES
  NoneDroppedEarly
  CallsEnd
