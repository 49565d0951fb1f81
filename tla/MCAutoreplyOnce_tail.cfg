\* Deliveries one at a time, no crash, addresses of three lengths in a file of about two records.
CONSTANTS
  Deliveries = {d1, d2, d3, d4}
  TimeLen = 2
  Repeat = 2
  StartTime = 1000
  MaxTicks = 3
  Rcpts <- MCRcptsMixed
  FileSizes = {10}
  Concurrent = FALSE
  MaxCrashes = 0
  CrashAfterSend = FALSE
SYMMETRY MCSymmetry
SPECIFICATION Spec
INVARIANT OnceFileRecords
\* A run ends when every delivery is done and the clock is at its bound.
CHECK_DEADLOCK FALSE
