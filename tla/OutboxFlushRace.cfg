\* The system may stop: every packet is delivered or a dead letter.
CHECK_DEADLOCK FALSE
SPECIFICATION Spec
CONSTANTS
  Packet = {p1}
  Flusher = {worker, caller}
  Worker = worker
  Policy = {"bounded"}
  MaxAttempts = {2}
  Unlimited = Unlimited
  AttemptCap = 3
  MaxInterrupts = 0
PROPERTIES
  DeadLettersRemain
