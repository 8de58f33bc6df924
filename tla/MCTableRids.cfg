\* Columns whose pages have one and two slots.
SPECIFICATION Spec
CONSTANTS
  a = a
  b = b
  Columns <- MCColumns
  Schemas <- MCSchemas
  Vals <- MCVals
  Null = 0
  Free = Free
  Slots <- OneAndTwo
  Given = {1}
  Ops = {"="}
  MaxPages = 2
  MaxRows = 3
  MaxKeys = 3
INVARIANT RidsAgree
