SPECIFICATION Spec
CONSTANTS
  me = me
  ann = ann
  bob = bob
  owner = owner
  viewer = viewer
  Emails <- MCTwoEmails
  Me = me
  Roles <- MCRoles
  Owner = owner
  Configs <- MCConfigsOfTwo
  Listing <- MCListingOfTwo
  Absent = Absent
  MaxTrouble = 1
INVARIANT ManagerStays
