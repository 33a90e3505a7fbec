SPECIFICATION FairSpec
CONSTANTS
  c1 = c1
  c2 = c2
  c3 = c3
  c4 = c4
  w1 = w1
  w2 = w2
  Workers = {w1}
  Clients = {c1, c2}
  FD_NUM = 2
  FirstFd = 4
  FreeFrom = 18
  LastFd = 20
  Home <- HomePartial
  Down = {1}
  Leavers = {c1, 0}
  MaxSend = 1
  PipeFd = 7
  PipeBuff = 4
  Unrouted = Unrouted
  Closed = Closed
  Db = Db
  NoMsg = NoMsg
PROPERTIES WatchedServed WatchedClosed
CHECK_DEADLOCK FALSE
