SPECIFICATION FairSpec
CONSTANTS
  Requests <- MCRequests
  Specs <- MCSpecs
  MaxRetries = 1
  ReadMax = 2
INVARIANTS
  TypeOK
  OneVerdict
  StoppedNotDialled
  BadGatewayIsFinal
  OneSocketInUse
PROPERTIES
  SameRouteOnRetry
  RequestIsHandled
CHECK_DEADLOCK FALSE
