SPECIFICATION LivePoolSpec
CONSTANTS
  Threads = {t1, t2}
  MaxConn = 2
  Null = Null
  Requests = {r1, r2, r3}
  None = None
  MaxRequests = 2
  MaxSpare = 0
  Main = Main
INVARIANTS PoolTypeOK NeverPopsEmpty NotShared Covered
PROPERTIES ImplementsWorkQueue EveryRequestTaken
