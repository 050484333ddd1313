CONSTANTS
  Connected = {1}
  Pressable = {1, 2}
  NoCamera = 0
SPECIFICATION FairSpec
PROPERTY FramesHealButtons
