SPECIFICATION FairSpec
CONSTANTS
  me = me
  ann = ann
  bob = bob
  owner = owner
  viewer = viewer
  Emails <- MCEmails
  Me = me
  Roles <- MCRoles
  Owner = owner
  Configs <- MCConfigs
  Listing <- MCListing
  Absent = Absent
  MaxTrouble = 3
INVARIANTS
  TypeOK
  AppliedAsPlanned
PROPERTIES
  Convergence
  OnlyMovesRemoveMe
  AgreedUntouched
