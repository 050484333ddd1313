CONSTANTS
  Listeners = {l1, l2}
  Motions = {m1}
  NoThread = NoThread
SPECIFICATION FairSpec
INVARIANTS
  ModesAgree
  MotionBitMeansMovie
  TornOnlyByOverlap
PROPERTIES
  ImplementsRegister
  MutexReleased
