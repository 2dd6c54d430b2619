SPECIFICATION FairSpec
CONSTANTS
  limits = limits
  evictor = evictor
  on = on
  off = off
  lean = lean
  spotty = spotty
  Fields <- MCOneField
  Values <- MCValues
  Templates <- MCTemplates
  Unset = Unset
  Missing = Missing
  Pending = Pending
  Steps = 2
  MaxTrouble = 3
INVARIANTS
  TypeOK
  RetriesSuffice
PROPERTIES
  Convergence
  TemplateNotReverted
  OverridesOnly
  DriftIsReal
