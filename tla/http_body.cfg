SPECIFICATION Spec
CONSTANTS
  HeadLen = 3
  FileLen = 2
  ReadBuf = 14
  SockBuf = 4
  WholeBody = FALSE
  WholeHead = TRUE
  MaxTries = 2
  Requests <- MCRequests
  Broken <- MCBroken
  Routes <- MCRoutes
  FileSets <- MCFileSets
  LongTexts <- MCLongTexts
  Relative <- MCRelative
  TrigModes = {0, 1}
CHECK_DEADLOCK FALSE
INVARIANT NoRequestIsIncomplete
