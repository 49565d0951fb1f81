\* Deliveries one at a time; one delivery process may be killed after its reply has left and before the cache is updated, and is then retried.
CONSTANTS
  Deliveries = {d1, d2, d3, d4}
  TimeLen = 2
  Repeat = 2
  StartTime = 1000
  MaxTicks = 3
  Rcpts <- MCRcptsEqual
  FileSizes = {0, 10}
  Concurrent = FALSE
  MaxCrashes = 1
  CrashAfterSend = TRUE
SYMMETRY MCSymmetry
SPECIFICATION Spec
PROPERTY ReplyOnce
\* A run ends when every delivery is done and the clock is at its bound.
CHECK_DEADLOCK FALSE
