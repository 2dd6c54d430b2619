SPECIFICATION Spec
CONSTANTS
  small = small
  large = large
  id1 = id1
  id2 = id2
  id3 = id3
  id4 = id4
  Kinds <- MCSchedules
  Ids <- MCIds
  Mains <- MCMains
  Nil = Nil
  MaxTrouble = 1
PROPERTIES
  MissingIsForgotten
