\* The system may stop: the starts are used up, or a file is broken.
CHECK_DEADLOCK FALSE
SPECIFICATION Spec
CONSTANTS
  Process = {cli}
  Code = {}
  Policy = {"allow_http", "require_https"}
  Site <- OneSite
  MaxStarts = 2
  MaxNodes = 1
  MaxCrashes = 0
  None = None
  Broken = Broken
INVARIANT
  RequireHttpsFails
