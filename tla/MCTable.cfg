\* Up to two rows in three pages of one slot.
SPECIFICATION CarefulSpec
CONSTANTS
  a = a
  b = b
  Columns <- MCColumns
  Schemas <- MCSchemas
  Vals <- MCVals
  Null = 0
  Free = Free
  Slots <- OneSlot
  Given = {1, 2}
  Ops = {"=", "<", ">="}
  MaxPages = 3
  MaxRows = 2
  MaxKeys = 2
INVARIANTS
  TypeOK
  RidsAgree
  IndexExact
  SelectExact
  DeletesSucceed
PROPERTY ImplementsRowStore
