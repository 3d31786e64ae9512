SPECIFICATION Spec
CONSTANTS
  Regex <- MCRegex
  Lines <- MCLines
  Tokens <- MCTokens
  Patterns <- MCPatterns
  Requests <- MCRequests
  Clients <- MCClients
  Bool <- MCBool
  Number <- MCNumber
  Level <- MCLevel
  Listen <- MCListen
  Parent <- MCProxy
  Net <- MCNet
  Numerals = {"7"}
  PortRange <- MCRanges
  Proxy <- MCProxy
  MaxFiles = 2
  MaxRead = 5
INVARIANTS
  SettingsAsWritten
  AccessAsWritten
  RulesAsWritten
  FirstRuleDecides
  RoutesFollowRules
CHECK_DEADLOCK FALSE
