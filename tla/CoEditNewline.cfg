SPECIFICATION Spec
CONSTANTS
  MaxDigit = 3
  Step = 2
  Users = {1}
  InitialDoc <- FrontSymbol
  FirstCharId = 3
  Newlines = TRUE
  MaxEdits = 2
  MaxChars = 1
  MaxOpens = 2
  MaxCrashes = 0
INVARIANT UniqueIds
CHECK_DEADLOCK FALSE
