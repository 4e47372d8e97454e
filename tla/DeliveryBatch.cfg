\* The system may stop: every packet is taken or a dead letter.
CHECK_DEADLOCK FALSE
SPECIFICATION DeliverySpec
SYMMETRY PacketSymmetry
CONSTANTS
  Packet = {p1, p2}
  Flusher = {worker, caller}
  Worker = worker
  Policy = {"none"}
  MaxAttempts = {1}
  Unlimited = Unlimited
  AttemptCap = 2
  MaxInterrupts = 0
  AckPolicy = {"after_handler_success", "always"}
  PollLimit = 2
  MaxDeliveries = 1
  MaxFaults = 0
INVARIANTS
  NothingLost
  StrandedOnlyByInterrupts
  DeliveryInv
  AttemptsWithinLimit
PROPERTIES
  RevivedOnlyByOverlap
  KeepsPromise
