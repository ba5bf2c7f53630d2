CONSTANTS
  None = None
  iris = iris
  gain = gain
  Limit = 2
  Value = {0, 1}
  MaxEvents = 3
  Order <- MCOrder
  Initially <- MCInitially
  Preset <- MCPreset
SPECIFICATION FairSpec
INVARIANT HistoryLeadsBack
INVARIANT OutageForgets
PROPERTY PanelFollows
CHECK_DEADLOCK FALSE
