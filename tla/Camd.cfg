CONSTANTS
  None = None
  Unset = Unset
  body1 = body1
  body2 = body2
  byMac = byMac
  byDev = byDev
  byIp = byIp
  byModel = byModel
  MaxEntries = 2
  MaxMeanwhile = 1
  start1 = start1
  stop1 = stop1
  Job <- MCJob
  Start <- MCStart
  Stop <- MCStop
  Body <- MCBody
  Entry <- MCEntry
  Identity <- MCIdentity
  Config <- MCConfig
SPECIFICATION MCSpec
INVARIANT StrongestMatchWins
INVARIANT StopOutranksStart
INVARIANT ShutdownReleases
PROPERTY PinnedIsFound
PROPERTY KeepsPromise
CHECK_DEADLOCK FALSE
