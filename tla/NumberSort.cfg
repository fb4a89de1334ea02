SPECIFICATION FairSpec
CHECK_DEADLOCK FALSE
CONSTANTS
  Word = 16
  DefaultN = 3
  DefaultMax = 4
  MaxMax = 6
  GenLines <- MCGenLines
  SortLines <- MCSortLines
  UserChars <- MCUserChars
  Leftovers <- MCLeftovers
INVARIANTS
  TypeOK
  GeneratedInRange
  OrderedUnlessRaised
  OutputSorted
PROPERTIES
  BothEnd
