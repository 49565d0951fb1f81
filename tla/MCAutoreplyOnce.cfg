\* Deliveries one at a time, one of them possibly killed before its reply and retried, addresses of one length: both cache kinds (DBM and a file of two records), with eviction and repeat expiry.
CONSTANTS
  Deliveries = {d1, d2, d3, d4}
  TimeLen = 2
  Repeat = 2
  StartTime = 1000
  MaxTicks = 3
  Rcpts <- MCRcptsEqual
  FileSizes = {0, 10}
  Concurrent = FALSE
  MaxCrashes = 1
  CrashAfterSend = FALSE
SYMMETRY MCSymmetry
SPECIFICATION Spec
INVARIANTS TypeOK OnceFileRecords
PROPERTY ReplyOnce
\* A run ends when every delivery is done and the clock is at its bound.
CHECK_DEADLOCK FALSE
