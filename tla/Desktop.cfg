SPECIFICATION Spec
CONSTANTS
  Thread = {"server"}
  HasFile = TRUE
  MaxLines = 1
  MaxLogged = 1
  IconSets <- MCIconSets
  Ticks = 2
  MaxReceived = 1
  MaxClicks = 3
INVARIANTS
  TypeOK
  ShownIsLogged
  IconTellsState
  MenuTellsState
PROPERTIES
  EndsWhenAsked
  ActivityNoticed
  ClickShowsWindow
CHECK_DEADLOCK FALSE
