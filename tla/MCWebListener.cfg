CONSTANTS
  split = split
  long = long
  stop = stop
  Clients <- MCClients
  SOCKET_INACTIVE = SOCKET_INACTIVE
  Request <- MCRequest
  Backlog = 1
  ReadLimit = 2
SPECIFICATION FairSpec
INVARIANTS
  AnswersFit
  StopEndsService
PROPERTY EveryoneIsServed
\* The thread ends with STOP or SIGPIPE, and waits for clients that may be silent.
CHECK_DEADLOCK FALSE
