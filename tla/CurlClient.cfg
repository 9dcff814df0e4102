SPECIFICATION FairSpec
CONSTANTS
  MaxFile = 5
  kReadSize = 2
  MaxChunks = 2
  MaxPushes = 1
  MaxHeader = 5
INVARIANTS TypeOK EgressIsRequest HeadersAreItems
PROPERTIES RequestIsEnded MainEnds
CHECK_DEADLOCK FALSE
