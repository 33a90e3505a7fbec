SPECIFICATION Spec
CONSTANTS
  c1 = c1
  c2 = c2
  c3 = c3
  c4 = c4
  w1 = w1
  w2 = w2
  Workers = {w1, w2}
  Clients = {c1, c2}
  FD_NUM = 1
  FirstFd = 4
  FreeFrom = 18
  LastFd = 21
  Home <- HomeSame
  Down = {}
  Leavers = {}
  MaxSend = 2
  PipeFd = 7
  PipeBuff = 10
  Unrouted = Unrouted
  Closed = Closed
  Db = Db
  NoMsg = NoMsg
SYMMETRY Symmetry
INVARIANTS InOrder
CHECK_DEADLOCK FALSE
