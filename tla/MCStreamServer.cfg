CONSTANTS
  StreamConns = {s1, s2}
  WebConns = {w1}
  Fds <- FdNumbers
  Listeners <- ListenerIds
  JIBBERISH_TOLERANCE = 1
  MaxAcceptFailures = 1
  SOCKET_INACTIVE = SOCKET_INACTIVE
  NoConn = NoConn
SPECIFICATION Spec
INVARIANTS
  NoDescriptorLeak
  ListenerOwnsDescriptor
  StraysOnlyWhileClosing
