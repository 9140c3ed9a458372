SPECIFICATION FairSpec
CONSTANTS
  Messages <- MCMessages
  Base = 2
  HeaderLen = 2
  MaxSends = 3
INVARIANTS
  NothingLeftBehind
PROPERTY ImplementsFifo
CHECK_DEADLOCK FALSE
