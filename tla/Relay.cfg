SPECIFICATION FairSpec
CONSTANTS
  Responses <- MCResponses
  Rules = {"none", "headers", "inspect", "rewrite"}
  ReadMax = 3
INVARIANTS
  TypeOK
  InOrder
  LossOnlyAfterFailedFetch
  PassThroughExact
  CutOffOnlyByReset
  FetchedBodyFilteredWhole
PROPERTIES
  ExchangeEnds
CHECK_DEADLOCK FALSE
