SPECIFICATION SpecLinked
SYMMETRY QueueSymmetry
CONSTANTS
  Thread = {t1, t2}
  PacketId = {p1, p2, p3}
  Content = {small}
  Size <- MCSize
  Ttl = {1}
  Never = Never
  small = small
  large = large
  MaxPacketBytes = 1
  CodeTtl = 1
  SendWindow = 0
  MaxSends = 1
  EndpointPackets = 1
  EndpointBytes = 3
  NodeBytes = 3
  TotalPackets = 3
  TotalBytes = 2
  AdminStatus = {"disabled"}
  MaxRows <- QueueRows
  MaxClock = 1
INVARIANTS
  OvershootBounded
  OneDeliveryPerPacket
PROPERTIES
  PacketsLeaveForAReason
