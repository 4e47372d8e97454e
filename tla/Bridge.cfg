SPECIFICATION FairSpec
CONSTANTS
  Endpoint = {e1}
  MaxDeliveries = 2
  MaxFaults = 1
  NoEndpoint = NoEndpoint
INVARIANTS
  BridgeInv
  SeveredForAReason
PROPERTIES
  AckedForAReason
  StaleContactsSettle
  RedeemedCodesBind
