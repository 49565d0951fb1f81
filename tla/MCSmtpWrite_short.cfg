\* Commands of 2, 3 and 5 octets into a 4-octet buffer: a 2-octet command
\* fills half of it, a 3-octet one overflows it, a 5-octet one is too long.
CONSTANTS
  BufSize = 4
  CmdLens = {2, 3, 5}
  MaxCalls = 4
  AllowShort = TRUE
  StartConn = {TRUE, FALSE}
SPECIFICATION Spec
INVARIANTS StreamIntact
\* The process stops after MaxCalls calls or at log_write_die.
CHECK_DEADLOCK FALSE
