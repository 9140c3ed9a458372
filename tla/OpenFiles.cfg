SPECIFICATION FairSpec
CONSTANTS
  ann = ann
  bob = bob
  doc = doc
  plan = plan
  memo = memo
  NoFile = NoFile
  LoggedOut = LoggedOut
  Users = {ann, bob}
  Files = {doc, plan, memo}
  Owner <- MCOwner
  FirstRows <- MCFirstRows
  Capacity = 1
  MaxOpens = 2
  MaxEdits = 1
  MaxCrashes = 1
INVARIANTS
  MapsAgree
  DeletionReachesEditors
  CleanMeansStored
  PresenceShown
  NoEditLost
  AbortsOnlyIfHurt
PROPERTY SavedEventually
