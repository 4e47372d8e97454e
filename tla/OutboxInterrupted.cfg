\* The system may stop: every packet is delivered or a dead letter.
CHECK_DEADLOCK FALSE
SPECIFICATION FairSpec
CONSTANTS
  Packet = {p1}
  Flusher = {worker, caller}
  Worker = worker
  Policy = {"until_expired"}
  MaxAttempts = {2}
  Unlimited = Unlimited
  AttemptCap = 3
  MaxInterrupts = 1
PROPERTIES
  EntriesSettleDurably
