SPECIFICATION FairSpec
CONSTANTS
  MaxDigit = 3
  Step = 2
  Users = {1, 2}
  InitialDoc <- FrontSymbol
  FirstCharId = 3
  Newlines = FALSE
  MaxEdits = 2
  MaxChars = 2
  MaxOpens = 3
  MaxCrashes = 1
INVARIANTS
  ReplicasCommute
  SortedReplicas
  UniqueIds
  ServerNeverRefuses
  AuthorsKnown
  PresenceFollows
PROPERTY OpenCompletes
CHECK_DEADLOCK FALSE
