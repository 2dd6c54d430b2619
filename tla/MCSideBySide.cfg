SPECIFICATION FairSpec
CONSTANTS
  NoId = NoId
  NoPolicy = NoPolicy
  NoJob = NoJob
  NoCluster = NoCluster
  NoTemplate = NoTemplate
  NoObject = NoObject
  NoBinding = NoBinding
  NoGroup = NoGroup
  NoAccount = NoAccount
  NoConnector = NoConnector
  Missing = Missing
  Foreign = Foreign
  Empty = Empty
  Absent = Absent
  Any = Any
  p = p
  q = q
  r = r
  a = a
  b = b
  n = n
  m = m
  x = x
  y = y
  t = t
  low = low
  high = high
  fine = fine
  c1 = c1
  c2 = c2
  s1 = s1
  s2 = s2
  Components <- MCComponents
  Ids <- MCIds
  BindingIds <- MCBindingIds
  ClusterIds <- MCClusterIds
  Names <- MCNames
  Settings <- MCSettings
  Clusters <- MCClusters
  Schedules <- MCSchedules
  Choices <- MCChoices
  Templates <- MCTemplates
  Contradictory <- MCContradictory
  Regions <- MCRegions
  Types <- MCTypes
  MatchedTypes <- MCTypes
  Slots <- MCSlots
  Cloud <- MCCloud
  Key <- MCKey
  Usages <- MCUsages
  ReadAs <- MCReadAs
  Strategies <- MCStrategies
  Uploads <- MCUploads
  Spaces <- MCSpaces
  Kinds <- MCKinds
  LeavesOut <- MCLeavesOut
  Connectors <- MCConnectors
  Roles <- MCRoles
  Contents <- MCContents
  Groups <- MCGroups
  Accounts <- MCAccounts
  MatchedNames <- MCNames
  MaxConfigs = 2
  Imported = low
  Default = a
  MaxTrouble = 2
  MoreTrouble = 3
\* A mapping ends.
CHECK_DEADLOCK FALSE
INVARIANTS
  TypeOK
  SuccessIsReal
  OneJobEach
  MatchIsRight
PROPERTIES
  OthersLeftAlone
  OnlyKnownLosses
  StaysReached
  EachInTurn
  Convergence
