\* The system may stop: the starts are used up, or a file is broken.
CHECK_DEADLOCK FALSE
SPECIFICATION Spec
SYMMETRY StateSymmetry
CONSTANTS
  Process = {daemon, cli}
  Code = {c1, c2}
  Policy = {"allow_http", "require_https"}
  Site <- TwoSites
  MaxStarts = 3
  MaxNodes = 2
  MaxCrashes = 1
  None = None
  Broken = Broken
INVARIANTS
  StateInv
  NodesAccounted
  HttpForAReason
