SPECIFICATION Spec
CONSTANTS
  s1 = s1
  s2 = s2
  u1 = u1
  u2 = u2
  Servers = {s1, s2}
  Users = {u1, u2}
  Fds = {4, 5}
  Registered = {u1}
  Inputs <- Meet
  MaxRequests = 2
  Failing = FALSE
  NoReq = NoReq
INVARIANTS StoredForAbsent
CHECK_DEADLOCK FALSE
