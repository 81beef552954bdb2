SPECIFICATION LiveSpec
CONSTANTS
  Fds = {f1}
  Workers = {w1}
  None = None
  MaxUsers = 1
  MaxRequests = 2
  MaxBacklog = 1
  TTL = 2
  MaxSegs = 1
  BufSegs = 1
  RespSegs = 2
  MayTerminate = FALSE
  Timely = TRUE
INVARIANTS TypeOK TimerPerConn
PROPERTIES SpinEnds ParkedReaped
