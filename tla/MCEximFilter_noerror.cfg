\* As MCEximFilter, with files that end right after noerror among the
\* files of the first filter.
CONSTANTS
  Files <- MCFilesLeak
  OptionSets <- MCOptionSets
  MaxCalls = 2
  Spelling <- MCSpelling
  Message <- MCMessage
INIT Init
NEXT Next
INVARIANT ParsesAsWritten
\* The process stops after MaxCalls filters.
CHECK_DEADLOCK FALSE
