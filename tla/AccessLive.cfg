\* The system may stop: no commits are left and the server is up to date.
CHECK_DEADLOCK FALSE
SPECIFICATION Spec
CONSTANTS
  Admin = {a1}
  Ip = {away}
  NoIp = NoIp
  Modes = {"dynamic"}
  StaticDenied = {}
  Legacy = {}
  InboxLimit = {1, 2}
  None = None
  MaxCommits = 2
  MaxFaults = 0
PROPERTY
  LiveWithoutRestart
