SPECIFICATION Spec
CONSTANTS
  MaxDigit = 3
  Step = 2
  Users = {1, 2}
  InitialDoc <- FrontSymbol
  FirstCharId = 3
  Newlines = FALSE
  MaxEdits = 2
  MaxChars = 1
  MaxOpens = 1
  MaxCrashes = 0
PROPERTY RefusedOnlyIfUnsorted
CHECK_DEADLOCK FALSE
