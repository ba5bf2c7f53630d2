CONSTANTS
  None = None
  Ids = 9
  First = {7}
  Last = 3
  MaxPending = 2
  MaxFaults = 2
  Key = {iris, gain}
  Value = {1, 2}
SPECIFICATION MCSpec
PROPERTY TallyFollows LatestLands
CHECK_DEADLOCK FALSE
