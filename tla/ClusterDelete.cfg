SPECIFICATION FairSpec
CONSTANT MaxTrouble = 4
INVARIANTS
  TypeOK
  ForgottenOnlyWhenGone
  NodesKeptUnlessAsked
PROPERTIES
  EventuallyRemoved
  ImplementsRemoval
\* A destroy that succeeded is the end of the resource.
CHECK_DEADLOCK FALSE
