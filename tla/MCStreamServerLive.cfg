CONSTANTS
  StreamConns = {s1, s2}
  WebConns = {}
  Fds <- FdNumbers
  Listeners <- ListenerIds
  JIBBERISH_TOLERANCE = 1
  MaxAcceptFailures = 0
  SOCKET_INACTIVE = SOCKET_INACTIVE
  NoConn = NoConn
SPECIFICATION FairSpec
PROPERTIES
  LostClientsAreReleased
  ServesAgain
  ShutdownCompletes
