CONSTANTS
  Width = 3
  Height = 2
  HalfByte = 8
  MOTION_THRESHOLD = 1
  Pictures <- MCPictures
  NoFrame = NoFrame
SPECIFICATION Spec
INVARIANT FoundWhereWatched
PROPERTY BitMeansMotion
