\* The system may stop: no commits are left and the server is up to date.
CHECK_DEADLOCK FALSE
SPECIFICATION Spec
CONSTANTS
  Admin = {a1, a2}
  Ip = {away}
  NoIp = NoIp
  Modes = {"off", "config", "dynamic"}
  StaticDenied = {away}
  Legacy = {away}
  InboxLimit = {1}
  None = None
  MaxCommits = 3
  MaxFaults = 1
INVARIANTS
  AccessInv
  StaleForAReason
PROPERTIES
  ImportKeepsRules
  NoticedIsServed
