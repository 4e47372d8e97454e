SPECIFICATION SpecLinked
SYMMETRY QueueSymmetry
CONSTANTS
  Thread = {t1, t2}
  PacketId = {p1}
  Content = {small, large}
  Size <- MCSize
  Ttl = {1}
  Never = Never
  small = small
  large = large
  MaxPacketBytes = 2
  CodeTtl = 1
  SendWindow = 0
  MaxSends = 1
  EndpointPackets = 1
  EndpointBytes = 3
  NodeBytes = 3
  TotalPackets = 3
  TotalBytes = 4
  AdminStatus = {}
  MaxRows <- RaceRows
  MaxClock = 1
PROPERTIES
  DeletedEndpointsWereUnused
