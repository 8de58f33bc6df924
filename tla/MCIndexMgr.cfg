SPECIFICATION CarefulSpec
CONSTANTS
  MaxKeys = 3
  MaxEntries = 7
  KeyValues <- MCKeys
  MaxSame <- OneTwice
INVARIANTS
  TypeOK
  TreeExact
  LeavesChained
  RightScansExact
  LeftScansFollowLinks
  DeletesSucceed
PROPERTIES
  ActsAsSortedIndex
  OnlyEmptyingBreaks
