SPECIFICATION Spec
CONSTANTS
  vpcOne = vpcOne
  vpcTwo = vpcTwo
  key1 = key1
  key2 = key2
  Specs <- MCSpecs
  Creds <- MCCreds
  NoCred = NoCred
  NoHash = NoHash
  Absent = Absent
  MaxTrouble = 3
SYMMETRY Symmetry
INVARIANT ImportsArePlanned
