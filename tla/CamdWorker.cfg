CONSTANTS
  NoKey = NoKey
  key1 = key1
  key2 = key2
  Key <- MCKey
SPECIFICATION WorkerFairSpec
INVARIANT SessionIsPinned
PROPERTY LinkIsKept
