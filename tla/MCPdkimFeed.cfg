CONSTANTS
  Messages <- MCMessages
  SignSigs <- MCSignSigs
  MaxHeaders = 3
  MaxHeaderLen = 64
  MaxBodyLineLen = 5
  CollectInputs = {0, 2}
  VerifyHashes <- MCVerifyHashes
  VerifyKeytypes <- MCVerifyKeytypes
  MinRsaBits = 1024
  MinimalModes = {FALSE, TRUE}
  DnsReplies <- MCDnsReplies
INIT Init
NEXT Next
INVARIANTS
  TypeOK
  BodyHashCanonical
  HeadersUnfolded
  LineBufferBound
  SigsAsTagLists
  SignedLengthExact
  
  VerifyHeadersAsRFC
  PubkeyAsRFC
\* A context stops once pdkim_feed_finish or an error has ended the feed.
CHECK_DEADLOCK FALSE
