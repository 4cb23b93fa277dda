SPECIFICATION FairSpec
CONSTANTS
  Clients = {c1, c2}
  Fds = {f1, f2}
  MaxSend = 3
  BufSize = 2
  Room = 1
  Backlog = 2
  Listen = Listen
  None = None
INVARIANTS
  TypeOK
  EchoIsFaithful
  NothingForgotten
  EventsStayTrue
PROPERTY
  EveryoneHeard
CHECK_DEADLOCK FALSE
