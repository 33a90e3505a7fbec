SPECIFICATION SysFairSpec
CONSTANTS
  s1 = s1
  s2 = s2
  u1 = u1
  u2 = u2
  Servers = {s1}
  Users = {u1, u2}
  Fds = {4, 5}
  Registered = {u1}
  Inputs <- Talk
  MaxRequests = 2
  Failing = FALSE
  NoReq = NoReq
  w1 = w1
  w2 = w2
  Workers = {w1, w2}
  Nobody = Nobody
  MaxClients = 2
  Hash <- AllToOne
INVARIANTS SysTypeOK ToldItsOwn OnlineLoggedIn ToldOnce
PROPERTIES WaitEnds
CHECK_DEADLOCK FALSE
