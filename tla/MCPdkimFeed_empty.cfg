CONSTANTS
  Messages <- MCMessages
  SignSigs <- MCSignSigs
  MaxHeaders = 3
  MaxHeaderLen = 64
  MaxBodyLineLen = 5
  CollectInputs = {0, 2}
  VerifyHashes <- MCVerifyHashes
  VerifyKeytypes <- MCVerifyKeytypes
  MinRsaBits = 1024
  MinimalModes = {FALSE, TRUE}
  DnsReplies <- MCDnsReplies
INIT Init
NEXT Next
INVARIANT EmptyBodyHashesCRLF
CHECK_DEADLOCK FALSE
