SPECIFICATION DispatchFairSpec
CONSTANTS
  MaxRequests = 3
  Persist = FALSE
  Paths <- MCPaths
  Mappings <- MCMappings
  Services <- MCServices
  Numbers = {"1"}
  Encoding <- MCEncoding
  Scripts <- MCScripts
  WithXslt = TRUE
INVARIANTS DispatchTypeOK SlotOwnsRequest SuffixIsRest Answered OutputWritten
PROPERTIES ImplementsService AllAnswered
