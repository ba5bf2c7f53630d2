CONSTANTS
  None = None
  panTilt = panTilt
  zoom = zoom
  fast = fast
  t1 = t1
  t2 = t2
  t3 = t3
  Group <- MCGroup
  Speed <- MCSpeed
  Client <- MCClient
  Token <- MCToken3
SYMMETRY Sym
SPECIFICATION Spec
INVARIANT MotionIsOwned
INVARIANT SwallowedStopIsDone
