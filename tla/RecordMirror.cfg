CONSTANTS
  None = None
  Asked = Asked
  MaxQueued = 2
  MaxOpen = 2
  MaxAside = 1
  Null = Null
  Pinned = {}
  Only = "g"
  Buttons = 1
  MaxWire = 1
  MaxFaults = 1
  Lane <- MCLane
  Control <- MCControl
  Order <- MCOrder
  Group <- MCGroup
SPECIFICATION MCSpec
INVARIANT MirrorFollows
INVARIANT TakesAreHonest
INVARIANT HoldsItsStick
INVARIANT PanelIsCurrent
INVARIANT PanelIsSought
INVARIANT RolesAreSound
