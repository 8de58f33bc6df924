\* The comment of DeleteRec, on two pages of one slot.
SPECIFICATION Spec
CONSTANTS
  null = null
  v1 = v1
  Vals <- MCVals
  Null <- null
  Free = Free
  SlotsPerPage = 1
  MaxPages = 2
INVARIANT FreedSlotsReused
