SPECIFICATION LiveSpec
CONSTANTS
  Threads = {t1, t2}
  Items = {1, 2, 3, 4}
  MaxLines = 4
  MaxDay = 1
  m_max_size = 2
  m_split_line = 2
  Empty = Empty
INVARIANTS TypeOK InOnePlace SplitRoughly
PROPERTIES ImplementsFifo QueuedWritten
CHECK_DEADLOCK FALSE
