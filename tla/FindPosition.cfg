SPECIFICATION FairSpec
CONSTANTS
  MaxDigit = 4
  Step = 2
  MaxLen = 2
  MCUsers = {1, 2, 3}
  Calls <- MCCalls
INVARIANTS
  GeneratedBetween
  ThrowsOnlyPastLeft
  AgreesWithFunction
PROPERTY Terminates
CHECK_DEADLOCK FALSE
