SPECIFICATION Spec
CONSTANTS
  ann = ann
  bob = bob
  carl = carl
  x = x
  y = y
  z = z
  root = root
  Users = {ann, bob, carl}
  Words = {x, y, z}
  RootWord = root
  MaxId = 6
  FirstRows <- MCFirstRows
  FirstNames <- MCFirstNames
  Typed <- MCTyped
  Makes <- MCMakes
  Most <- MCMost
  MaxPars <- MCPars
  MaxCrashes = 1
INVARIANTS
  SharesResolve
  OneRowEach
  FoldersKept
  CyclesOnlyIfMisread
  SameNameOnlyIfEnded
  RootLostOnlyIfTorn
  Loads
  NumbersFreshIfCounted
CHECK_DEADLOCK FALSE
