SPECIFICATION FairSpec
CONSTANTS
  Delivery = {d1, d2}
  Poll = {p1, p2}
  Limit = 1
INVARIANTS
  NoLostWakeup
  WaitersAreAwaited
PROPERTIES
  DeliveredPromptly
  PollsEnd
