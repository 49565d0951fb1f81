CONSTANTS
  Messages <- MCMessagesNul
  SignSigs <- MCSignSigs
  MaxHeaders = 3
  MaxHeaderLen = 64
  MaxBodyLineLen = 6
  CollectInputs = {0}
  VerifyHashes <- MCVerifyHashes
  VerifyKeytypes <- MCVerifyKeytypes
  MinRsaBits = 1024
  MinimalModes = {FALSE, TRUE}
  DnsReplies <- MCDnsReplies
INIT Init
NEXT Next
INVARIANT BodyHashCanonical
CHECK_DEADLOCK FALSE
