CONSTANTS
  None = None
  NoKey = NoKey
  panTilt = panTilt
  zoom = zoom
  fast = fast
  t1 = t1
  t2 = t2
  t3 = t3
  MaxRetries = 1
  MaxLate = 1
  Group <- MCOne
  Speed <- MCSpeed
  Client <- MCClient
  Token <- MCToken2
  move1 = move1
  move2 = move2
  write = write
  poll = poll
  Command <- MCCommand
  Motion <- MCMotion
  Write <- MCWrite
  KeyOf <- MCKeyOf
  Gap = 1
  Guard = 2
SPECIFICATION MCSpec
INVARIANT HeadIsAnsweredFor
INVARIANT OneWayToConnect
INVARIANT MotionIsPrompt
PROPERTY QuietCameraRests
PROPERTY EveryCallIsAnswered
CHECK_DEADLOCK FALSE
