\* One recipient, an alias loop a -> b -> a, a self-forward of c (reached
\* as c-x through a suffix), re-routing and unseen; LongStop = 2
\* stands for the code's 100 so that the long stop is reached by the
\* longest chains.  MaxLocalPart = 4 covers every local part one affix can
\* be found in twice.
CONSTANTS
  Addrs <- MCAddrs
  Recipients <- MCRecipients
  NR = 5
  Redirect <- MCRedirect
  Aliases <- MCAliases
  DriverResults <- MCDriverResults
  DomainResults <- MCDomainResults
  CondResults <- MCCondResults
  Prefix <- MCPrefix
  PrefixOptional <- MCPrefixOptional
  Suffix <- MCSuffix
  SuffixOptional <- MCSuffixOptional
  LocalParts <- MCLocalParts
  CheckLocalUser <- MCCheckLocalUser
  LocalUsers <- MCLocalUsers
  MaxLocalPart = 4
  RepeatUse <- MCRepeatUse
  More <- MCMore
  Unseen <- MCUnseen
  PassRouter <- MCPassRouter
  Widen <- MCWiden
  LongStop = 2
  MaxItems = 40
  Query <- MCQuery
  Replies <- MCReplies
  BufSize = 24
  PipeCap = 28
  ExitCodes = {0, 1}
  Transports <- MCTransports
  RouterTransport <- MCRouterTransport
  HostResults = {"OK", "PASS"}
  RdaResults <- MCRdaResults
  QpSetupFails = TRUE
SPECIFICATION Spec
INVARIANTS TypeOK LoopFree AffixesAsDocumented QpResultAsReply
PROPERTY AllResolved
\* Delivery stops once addr_new is empty; a stop with an address still
\* unrouted is a violation of AllResolved.
CHECK_DEADLOCK FALSE
