SPECIFICATION FairSpec
CHECK_DEADLOCK FALSE
CONSTANTS
  Lines <- MCLines
  MaxFailures = 2
INVARIANTS
  TypeOK
  NoneLeftBelow
  WholeTree
  ChildLineAccepted
  FallsEnd
PROPERTIES
  Settles
