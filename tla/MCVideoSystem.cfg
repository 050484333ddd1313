CONSTANTS
  Cameras = {1, 2}
  MaxPresses = 2
  MaxMotions = 1
  MaxHeaders = 1
SPECIFICATION FairSpec
INVARIANT AgreeAtRest
PROPERTIES
  ClientIsClientModes
  MotionGetsThrough
  IdleGetsThrough
