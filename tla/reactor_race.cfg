SPECIFICATION Spec
CONSTANTS
  Fds = {f1, f2}
  Workers = {w1, w2}
  None = None
  MaxUsers = 1
  MaxRequests = 3
  MaxBacklog = 1
  TTL = 2
  MaxSegs = 1
  BufSegs = 1
  RespSegs = 1
  MayTerminate = FALSE
  Timely = TRUE
INVARIANTS OneOwner
