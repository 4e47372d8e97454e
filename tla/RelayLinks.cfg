SPECIFICATION Spec
SYMMETRY ThreadSymmetry
CONSTANTS
  Thread = {t1, t2}
  PacketId = {}
  Content = {}
  Size <- NoSize
  Ttl = {}
  Never = Never
  small = small
  large = large
  MaxPacketBytes = 2
  CodeTtl = 1
  SendWindow = 1
  MaxSends = 1
  EndpointPackets = 1
  EndpointBytes = 2
  NodeBytes = 2
  TotalPackets = 2
  TotalBytes = 3
  AdminStatus = {}
  MaxRows <- LinkRows
  MaxClock = 1
INVARIANTS
  TypeOK
  ReferencesHold
  OneActiveRoutePerPair
  RoutesFollowLinks
PROPERTIES
  OneLinkPerCode
