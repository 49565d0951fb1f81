\* Two responses per script, packets of up to 6 octets (so a packet can end
\* one response and start the next), a buffer of 8 octets (too small for the
\* two-line response) and one of 17 (just large enough for it), and a third
\* read that finds the script exhausted.
CONSTANTS
  Scripts <- MCScripts
  InBufSize = 6
  RespSizes = {8, 17}
  OkDigits = {"2"}
  MaxReads = 3
SPECIFICATION Spec
INVARIANTS TypeOK NoOverrun ReadsMatchScript
PROPERTY ReadReturns
\* The caller stops after MaxReads calls.
CHECK_DEADLOCK FALSE
