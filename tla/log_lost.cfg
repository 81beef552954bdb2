SPECIFICATION Spec
CONSTANTS
  Threads = {t1, t2}
  Items = {1, 2, 3, 4}
  MaxLines = 4
  MaxDay = 0
  m_max_size = 2
  m_split_line = 4
  Empty = Empty
INVARIANTS NoLineLost
CHECK_DEADLOCK FALSE
