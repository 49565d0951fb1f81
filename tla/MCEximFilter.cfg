\* One delivery process runs two filters, one after the other, over all
\* the files but those that end right after noerror.
CONSTANTS
  Files <- MCFiles
  OptionSets <- MCOptionSets
  MaxCalls = 2
  Spelling <- MCSpelling
  Message <- MCMessage
INIT Init
NEXT Next
INVARIANTS TypeOK ParsesAsWritten ResultAsWritten
\* The process stops after MaxCalls filters: the bound on a run, not a
\* deadlock of the code.
CHECK_DEADLOCK FALSE
