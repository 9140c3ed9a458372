CONSTANTS
  a = a
  b = b
  mine = mine
  fresh = fresh
  c1 = c1
  c2 = c2
  ann = ann
  bob = bob
  eve = eve
  Clients = {c1, c2}
  Users = {ann, bob, eve}
  Files <- MCFiles
  NoFile = NoFile
  Owner <- MCOwner
  SignsAs <- MCSignsAs
  Starts <- MCStarts
SPECIFICATION Spec
CHECK_DEADLOCK FALSE
SYMMETRY Alike
INVARIANTS NeverCutOff FrozenMeansAwaited SessionsMatch EditorNamesItsFile OpenIsShown FallsOnlyToGhosts EndsOnlyByCause
