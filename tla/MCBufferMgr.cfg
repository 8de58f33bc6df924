\* Three slots, two pages of one file, and a memory block per slot.
SPECIFICATION Spec
CONSTANTS
  Slots = {s1, s2, s3}
  NoSlot = NoSlot
  MaxPages = 2
  Fd = 3
  zero = zero
  d1 = d1
  Data <- MCData
  Zero <- zero
  Torn <- MCTorn
  Absent = Absent
  MaxPins = 2
SYMMETRY SlotSymmetry
INVARIANTS
  TypeOK
  SlotsPartitioned
  HashMatchesSlots
  RecencyIsTotalOrder
  CleanFramesAreCopies
PROPERTIES
  PinnedPageStays
  OnlyClearLosesUpdates
  ImplementsPageStore
