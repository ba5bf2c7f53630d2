CONSTANTS
  None = None
  c1 = c1
  c2 = c2
  Camera = {c1, c2}
  Address = {1}
  Axis = {pan, zoom}
  Peer = {p}
  Seat <- MCSeat
  QueueLimit = 2
  MaxWire = 1
  MaxDown = 1
SPECIFICATION FairSpec
INVARIANT HoldsCanBeStopped
PROPERTY RestIsObeyed
CHECK_DEADLOCK FALSE
