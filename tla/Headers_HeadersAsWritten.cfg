SPECIFICATION Spec
CONSTANTS
  Sections <- MCSections
  Requests <- MCRequests
  Responses <- MCResponses
  NamesWith <- MCNamesWith
  Secure = {"secure"}
  MaxAge <- MCMaxAge
  Now = "now"
  Numerals = {"7", "9"}
  PortRange <- NoRange
  Proxy <- NoRange
INVARIANT
  HeadersAsWritten
CHECK_DEADLOCK FALSE
