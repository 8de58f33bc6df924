\* Three pages of two slots.
SPECIFICATION Spec
CONSTANTS
  null = null
  v1 = v1
  Vals <- MCVals
  Null <- null
  Free = Free
  SlotsPerPage = 2
  MaxPages = 3
INVARIANTS
  TypeOK
  CountsExact
  HeadInFile
  InsertsSucceed
PROPERTIES
  InsertAddsOne
  ImplementsHeapFile
