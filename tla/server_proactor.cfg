SPECIFICATION Spec
CONSTANTS
  Fds = {f1, f2, f3}
  Workers = {w1, w2}
  None = None
  MaxUsers = 2
  MaxRequests = 1
  MaxBacklog = 1
  TTL = 2
  MaxSegs = 1
  BufSegs = 1
  RespSegs = 2
  MayTerminate = TRUE
  Timely = TRUE
SYMMETRY Symmetry
INVARIANTS TypeOK OneOwner TimerPerConn Alternate
PROPERTIES OnlyInactiveClosed UsesWorkQueue
