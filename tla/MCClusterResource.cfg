SPECIFICATION FairSpec
CONSTANTS
  role1 = role1
  role2 = role2
  id1 = id1
  id2 = id2
  id3 = id3
  id4 = id4
  Creds <- MCCreds
  Ids <- MCIds
  MaxTrouble = 6
INVARIANTS
  TypeOK
  NoSilentDrift
PROPERTIES
  DeleteAsPromised
  TrackedUntilGone
  Convergence
CHECK_DEADLOCK FALSE
