SPECIFICATION EditorSpec
CONSTANTS
  Sessions = {s1, s2}
  ActionsFiles <- MCFiles
  Actions = {"a", "b"}
  Patterns = {"p", "q"}
  Words = {"q"}
  MaxRequests = 2
PROPERTY
  KeepsPromise
CHECK_DEADLOCK FALSE
