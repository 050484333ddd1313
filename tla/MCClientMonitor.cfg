CONSTANTS
  Connected = {1, 2}
  Pressable = {2}
  NoCamera = 0
SPECIFICATION Spec
INVARIANTS
  WaitersAreUpToDate
  OneMotionLamp
  ButtonsShowMode
PROPERTY ImplementsClientModes
