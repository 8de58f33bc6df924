\* Two pages, two slots, which blocks of memory may take.  A write() that fails
\* has written nothing: what it may have written in part is MCBufferMgr's.
SPECIFICATION Spec
CONSTANTS
  Slots = {s1, s2}
  NoSlot = NoSlot
  MaxPages = 2
  Fd = 3
  zero = zero
  v1 = v1
  Vals <- MCVals
  ZeroVal <- zero
  Data <- MCData
  Zero <- MCZero
  Torn = {}
  Absent = Absent
  MaxPins = 2
VIEW LiveState
SYMMETRY SlotSymmetry
INVARIANTS
  TypeOK
  FreeListExact
  HeaderMatchesFile
  HeldPagesInUse
PROPERTY ImplementsPagedFile
