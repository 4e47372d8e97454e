\* The system may stop: every packet is taken or a dead letter.
CHECK_DEADLOCK FALSE
SPECIFICATION FairDeliverySpec
CONSTANTS
  Packet = {p1}
  Flusher = {worker, caller}
  Worker = worker
  Policy = {"bounded"}
  MaxAttempts = {2}
  Unlimited = Unlimited
  AttemptCap = 3
  MaxInterrupts = 1
  AckPolicy = {"after_handler_success", "after_store", "always", "manual"}
  PollLimit = 2
  MaxDeliveries = 2
  MaxFaults = 1
INVARIANTS
  NothingLost
  StrandedOnlyByInterrupts
  DeliveryInv
  AttemptsWithinLimit
PROPERTIES
  RevivedOnlyByOverlap
  KeepsPromise
  EventuallyTaken
