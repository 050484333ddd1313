CONSTANTS
  START_FLAG <- Flag
  Images <- Pictures
  MaxImageSize = 300
  MaxFrames = 3
  MaxWire = 2
SPECIFICATION FairSpec
INVARIANTS
  DeliversWhatWasSent
  HeadersWereSent
  MotionReportedOnce
PROPERTIES
  ImplementsMotionReader
  FramesArrive
\* The server may have sent all its frames, with nothing left to read.
CHECK_DEADLOCK FALSE
