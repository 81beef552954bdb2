SPECIFICATION LiveSpec
CONSTANTS
  Fds = {f1, f2}
  Workers = {w1}
  None = None
  MaxUsers = 2
  MaxRequests = 1
  MaxBacklog = 1
  TTL = 2
  MaxSegs = 1
  BufSegs = 1
  RespSegs = 1
  MayTerminate = FALSE
  Timely = TRUE


PROPERTIES ParkedReaped QueuedServed SilentReaped UsesTimerSet
