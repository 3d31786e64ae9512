SPECIFICATION Spec
CONSTANTS
  Lines <- MCLines
  MaxLines = 4
  Word = {"a", "b", "c", "n", "s", "g"}
  Literal <- MCLiteral
  Types <- MCTypes
  Rules <- MCRules
  Urls <- MCUrls
  Requests <- MCRequests
  Answers <- MCAnswers
INVARIANTS
  FiltersAsWritten
  RewrittenAsRuled
CHECK_DEADLOCK FALSE
