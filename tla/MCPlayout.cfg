CONSTANTS
  Frames = {1, 2, 3}
  SentTime <- Sent
  Server <- SentBy
  NoFrame = 0
  Instants <- Times
  SYNC_TIME_MS = 500
  SYNC_TIME_HYSTERESIS_MS = 50
SPECIFICATION FairSpec
INVARIANT
  SyncTimeBounded
PROPERTIES
  NeverEarly
  InOrderIfInTime
  PerCameraOrder
  EveryFrameIsShown
  ImplementsSet
