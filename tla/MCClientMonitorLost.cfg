\* What Monitor.java:151-154 says of nextMode.
CONSTANTS
  Connected = {1}
  Pressable = {1, 2}
  NoCamera = 0
SPECIFICATION Spec
PROPERTY RequestsAreSent
