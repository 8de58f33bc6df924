\* A value whose bytes are zero.
SPECIFICATION Spec
CONSTANTS
  a = a
  b = b
  Columns <- MCColumns
  Schemas <- MCSchemas
  Vals <- MCVals
  Null = 0
  Free = Free
  Slots <- OneSlot
  Given = {0, 1}
  Ops = {"="}
  MaxPages = 2
  MaxRows = 2
  MaxKeys = 2
INVARIANT NoDeadEntries
