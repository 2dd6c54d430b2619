SPECIFICATION Spec
CONSTANTS
  limits = limits
  evictor = evictor
  on = on
  off = off
  lean = lean
  spotty = spotty
  Fields <- MCFields
  Values <- MCValues
  Templates <- MCTemplates
  Unset = Unset
  Missing = Missing
  Pending = Pending
  Steps = 2
  MaxTrouble = 2
SYMMETRY Symmetry
INVARIANT WritesWholePolicies
