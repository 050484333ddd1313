SPECIFICATION FairSyncSpec
INVARIANTS
  MonitorFollowsSettings
  ButtonsShowSettings
  ChoiceStays
PROPERTY PressesEnd
